---- MODULE Spec2Model ----
(***************************************************************************)
(* Voice command system: the keyword router (VOICE_ROUTER_SYSTEM.py), the  *)
(* wake-word listener (VOICE_WAKE_WORD_LISTENER.py) and the session        *)
(* analytics logger (VOICE_ANALYTICS_LOGGER.py).                           *)
(*                                                                         *)
(* A Python str is modelled as a sequence of one-character strings, so     *)
(* that lower(), substring containment and len() are computed and not      *)
(* assumed.                                                                *)
(***************************************************************************)
EXTENDS Integers, Sequences, FiniteSets, TLC

(***************************************************************************)
(* Text: str.lower(), `sub in text`, and building transcripts from words.  *)
(***************************************************************************)
UpperChars == <<"A","B","C","D","E","F","G","H","I","J","K","L","M",
                "N","O","P","Q","R","S","T","U","V","W","X","Y","Z">>

LowerChars == <<"a","b","c","d","e","f","g","h","i","j","k","l","m",
                "n","o","p","q","r","s","t","u","v","w","x","y","z">>

Letters == {UpperChars[i] : i \in DOMAIN UpperChars} \cup {LowerChars[i] : i \in DOMAIN LowerChars}

\* the lower-case and upper-case forms of every letter
LowerOf ==
  [c \in Letters |->
     IF \E i \in DOMAIN UpperChars : UpperChars[i] = c
     THEN LowerChars[CHOOSE i \in DOMAIN UpperChars : UpperChars[i] = c]
     ELSE c]

UpperOf ==
  [c \in Letters |->
     IF \E i \in DOMAIN LowerChars : LowerChars[i] = c
     THEN UpperChars[CHOOSE i \in DOMAIN LowerChars : LowerChars[i] = c]
     ELSE c]

\* str.lower() on one character: letters are lowered, the rest is kept
LowerChar(c) == IF c \in Letters THEN LowerOf[c] ELSE c

\* str.upper() on one character
UpperChar(c) == IF c \in Letters THEN UpperOf[c] ELSE c

\* str.lower()
Lower(s) == [i \in DOMAIN s |-> LowerChar(s[i])]

\* str.upper()
Upper(s) == [i \in DOMAIN s |-> UpperChar(s[i])]

\* str.capitalize(): what a recogniser returns at the start of a sentence
Capitalize(s) == [i \in DOMAIN s |-> IF i = 1 THEN UpperChar(s[i]) ELSE LowerChar(s[i])]

\* Python's `sub in text` on str: sub occurs as a contiguous run of text
Contains(sub, text) ==
  LET t == text
      n == Len(sub)
  IN  \E i \in 0..(Len(t) - n) : \A j \in 1..n : t[i + j] = sub[j]

\* the str value of a character sequence, as TLC's string
RECURSIVE Str(_)
Str(s) == IF s = <<>> THEN "" ELSE Head(s) \o Str(Tail(s))

\* " ".join(words)
RECURSIVE Join(_)
Join(ws) ==
  IF ws = <<>> THEN <<>>
  ELSE IF Len(ws) = 1 THEN ws[1]
  ELSE ws[1] \o <<" ">> \o Join(Tail(ws))

\* the letter-case variants of a word a transcript may carry
Casings(w) == {Lower(w), Upper(w), Capitalize(w)}

(***************************************************************************)
(* VOICE_ROUTER_SYSTEM.py                                                  *)
(***************************************************************************)
\* the agent table, in registration (dict insertion) order
AGENTS ==
  << [name |-> "Security Bot", priority |-> 10,
      keywords |-> << <<"s", "e", "c", "u", "r", "i", "t", "y">>,
                     <<"p", "a", "s", "s", "w", "o", "r", "d">>,
                     <<"l", "o", "g", "i", "n">>,
                     <<"a", "u", "t", "h">>,
                     <<"h", "a", "c", "k">>,
                     <<"b", "r", "e", "a", "c", "h">>,
                     <<"v", "u", "l", "n", "e", "r", "a", "b", "i", "l", "i", "t", "y">> >>],
     [name |-> "System Bot", priority |-> 9,
      keywords |-> << <<"s", "w", "i", "t", "c", "h">>,
                     <<"c", "o", "m", "p", "u", "t", "e", "r">>,
                     <<"r", "e", "b", "o", "o", "t">>,
                     <<"r", "e", "s", "t", "a", "r", "t">>,
                     <<"s", "h", "u", "t", "d", "o", "w", "n">>,
                     <<"s", "y", "s", "t", "e", "m">> >>],
     [name |-> "C1 Mechanic", priority |-> 8,
      keywords |-> << <<"b", "u", "i", "l", "d">>,
                     <<"c", "r", "e", "a", "t", "e">>,
                     <<"m", "a", "k", "e">>,
                     <<"d", "e", "p", "l", "o", "y">>,
                     <<"i", "n", "s", "t", "a", "l", "l">>,
                     <<"s", "e", "t", "u", "p">> >>],
     [name |-> "C2 Architect", priority |-> 8,
      keywords |-> << <<"d", "e", "s", "i", "g", "n">>,
                     <<"a", "r", "c", "h", "i", "t", "e", "c", "t", "u", "r", "e">>,
                     <<"p", "l", "a", "n">>,
                     <<"s", "c", "a", "l", "e">>,
                     <<"o", "p", "t", "i", "m", "i", "z", "e">> >>],
     [name |-> "C3 Oracle", priority |-> 8,
      keywords |-> << <<"p", "a", "t", "t", "e", "r", "n">>,
                     <<"p", "r", "e", "d", "i", "c", "t">>,
                     <<"a", "n", "a", "l", "y", "z", "e">>,
                     <<"f", "u", "t", "u", "r", "e">>,
                     <<"v", "i", "s", "i", "o", "n">> >>],
     [name |-> "Comms Bot", priority |-> 7,
      keywords |-> << <<"m", "e", "s", "h">>,
                     <<"r", "a", "d", "i", "o">>,
                     <<"f", "r", "e", "q", "u", "e", "n", "c", "y">>,
                     <<"a", "n", "t", "e", "n", "n", "a">>,
                     <<"c", "o", "m", "m", "s">>,
                     <<"c", "o", "m", "m", "u", "n", "i", "c", "a", "t", "i", "o", "n">> >>],
     [name |-> "General Assistant", priority |-> 1,
      keywords |-> << <<"h", "e", "l", "p">>,
                     <<"w", "h", "a", "t">>,
                     <<"h", "o", "w">>,
                     <<"w", "h", "y">>,
                     <<"w", "h", "e", "n">>,
                     <<"w", "h", "e", "r", "e">> >>] >>

\* the agent record appended on a keyword hit (name, priority; the colour
\* is presentation only)
AgentHit(a) == [name |-> a.name, priority |-> a.priority]

\* for keyword in config['keywords']: if keyword in text: append; break
AgentMatches(a, text) == \E k \in DOMAIN a.keywords : Contains(a.keywords[k], text)

\* a keyword loop without the break: one entry per keyword that hits
RECURSIVE KeywordLoopNoBreak(_, _, _)
KeywordLoopNoBreak(a, k, text) ==
  IF k > Len(a.keywords) THEN <<>>
  ELSE (IF Contains(a.keywords[k], text) THEN <<AgentHit(a)>> ELSE <<>>)
       \o KeywordLoopNoBreak(a, k + 1, text)

\* the inner loop from keyword k on: what it appends to responding_agents.
\* The first keyword that hits appends the agent and breaks.
RECURSIVE KeywordLoop(_, _, _)
KeywordLoop(a, k, text) ==
  IF k > Len(a.keywords) THEN <<>>
  ELSE IF Contains(a.keywords[k], text) THEN <<AgentHit(a)>>
  ELSE KeywordLoop(a, k + 1, text)

\* the loop over AGENTS.items(): the hits in registration order
RECURSIVE CollectHits(_, _)
CollectHits(i, text) ==
  IF i > Len(AGENTS) THEN <<>>
  ELSE KeywordLoop(AGENTS[i], 1, text) \o CollectHits(i + 1, text)

\* insert x behind every element whose priority is >= x's (keeps ties in order)
InsertStable(acc, x) ==
  LET n == Cardinality({j \in DOMAIN acc : acc[j].priority >= x.priority})
  IN  SubSeq(acc, 1, n) \o <<x>> \o SubSeq(acc, n + 1, Len(acc))

RECURSIVE SortLoop(_, _)
SortLoop(acc, rest) ==
  IF rest = <<>> THEN acc ELSE SortLoop(InsertStable(acc, Head(rest)), Tail(rest))

\* a descending sort that reverses an ascending stable sort: ties come out
\* in reverse registration order
RECURSIVE ReverseSeq(_)
ReverseSeq(s) == IF s = <<>> THEN <<>> ELSE ReverseSeq(Tail(s)) \o <<Head(s)>>

SortReversedAscending(s) == SortLoop(<<>>, ReverseSeq(s))

\* list.sort(key=priority, reverse=True): descending and stable
SortByPriority(s) == SortLoop(<<>>, s)

FallbackAgent == [name |-> "General Assistant", priority |-> 1]

\* route_to_agents without lowering the transcript first
RouteCaseSensitive(text) ==
  LET sorted == SortByPriority(CollectHits(1, text))
  IN  IF sorted = <<>> THEN <<FallbackAgent>> ELSE sorted

\* route_to_agents that returns the sorted hits without the fallback
RouteNoFallback(text) == SortByPriority(CollectHits(1, Lower(text)))

\* route_to_agents that appends the fallback agent to every result
RouteAlwaysFallback(text) ==
  LET sorted == SortByPriority(CollectHits(1, Lower(text)))
  IN  IF \E i \in DOMAIN sorted : sorted[i].name = FallbackAgent.name
      THEN sorted ELSE Append(sorted, FallbackAgent)

\* VoiceRouter.route_to_agents(message), message['text'] = text
route_to_agents(text) ==
  LET sorted == SortByPriority(CollectHits(1, Lower(text)))
  IN  IF sorted = <<>> THEN <<FallbackAgent>> ELSE sorted

(***************************************************************************)
(* VOICE_ANALYTICS_LOGGER.py                                               *)
(*                                                                         *)
(* An Optional[str] argument is None (the empty tuple) or Some(s) with s    *)
(* the str as a TLC string; len(s) is Len(s).  A VoiceAnalytics object is   *)
(* a record of its session_data and of the three files it writes.          *)
(***************************************************************************)
None == <<>>

Some(s) == <<s>>

\* Python truthiness of an Optional[str]: neither None nor ""
Truthy(t) == t # None /\ t[1] # ""

\* len(text) if text else 0
CharsOf(t) == IF Truthy(t) THEN Len(t[1]) ELSE 0

\* VoiceAnalytics.__init__: empty session, zeroed statistics, no file yet
NewAnalytics ==
  [ events |-> <<>>,
    statistics |-> [ tts_events |-> 0, stt_events |-> 0, commands_processed |-> 0,
                     errors |-> 0, total_chars_spoken |-> 0, total_chars_heard |-> 0 ],
    end_time |-> FALSE,
    session_file |-> None,
    transcript_file |-> <<>>,
    report_file |-> None ]

\* VoiceAnalytics._save: the whole session document replaces the file
Save(an) ==
  [an EXCEPT !.session_file =
     Some([events |-> an.events, statistics |-> an.statistics, end_time |-> an.end_time])]

\* VoiceAnalytics._append_transcript
AppendTranscript(an, line) == [an EXCEPT !.transcript_file = Append(@, line)]

\* len(data.get("text", "")) raises TypeError when the text is None
LenRaises(event_type, data) == event_type \in {"tts", "stt"} /\ data.text = None

\* the statistics update of log_event, up to the point where it may raise
UpdateStatistics(st, event_type, data) ==
  IF event_type = "tts" THEN
    IF data.text = None THEN [st EXCEPT !.tts_events = @ + 1]
    ELSE [st EXCEPT !.tts_events = @ + 1, !.total_chars_spoken = @ + Len(data.text[1])]
  ELSE IF event_type = "stt" THEN
    IF data.text = None THEN [st EXCEPT !.stt_events = @ + 1]
    ELSE [st EXCEPT !.stt_events = @ + 1, !.total_chars_heard = @ + Len(data.text[1])]
  ELSE IF event_type = "command" THEN [st EXCEPT !.commands_processed = @ + 1]
  ELSE IF event_type = "error" THEN [st EXCEPT !.errors = @ + 1]
  ELSE st

\* log_event up to its call of _save: the event appended, the statistics
\* updated
RecordInMemory(an, event_type, data) ==
  [an EXCEPT !.events = Append(@, [type |-> event_type, data |-> data]),
             !.statistics = UpdateStatistics(@, event_type, data)]

\* a log_event that books heard characters as spoken ones
LogEventSwapped(an, event_type, data) ==
  LET other == IF event_type = "stt" THEN "tts" ELSE event_type
      an1 == [an EXCEPT !.events = Append(@, [type |-> event_type, data |-> data]),
                        !.statistics = UpdateStatistics(@, other, data)]
  IN  IF LenRaises(event_type, data) THEN an1 ELSE Save(an1)

\* a log_event that saves before it updates the statistics
LogEventSaveFirst(an, event_type, data) ==
  LET an1 == Save([an EXCEPT !.events = Append(@, [type |-> event_type, data |-> data])])
  IN  [an1 EXCEPT !.statistics = UpdateStatistics(@, event_type, data)]

\* VoiceAnalytics.log_event: append, update the statistics, save.  The state
\* it leaves behind, also when len() raised before the save.
log_event(an, event_type, data) ==
  LET an1 == [an EXCEPT !.events = Append(@, [type |-> event_type, data |-> data]),
                        !.statistics = UpdateStatistics(@, event_type, data)]
  IN  IF LenRaises(event_type, data) THEN an1 ELSE Save(an1)

\* VoiceAnalytics.log_tts: len(text) in the argument list raises on None,
\* before anything is recorded
log_tts(an, text) ==
  IF text = None THEN an
  ELSE AppendTranscript(
         log_event(an, "tts", [text |-> text, chars |-> Len(text[1]), success |-> TRUE]),
         "[CLAUDE] " \o text[1])

\* a log_stt that leaves the transcript file alone
LogSttNoTranscript(an, text) ==
  log_event(an, "stt", [text |-> text, chars |-> CharsOf(text), success |-> TRUE])

\* VoiceAnalytics.log_stt
log_stt(an, text) ==
  LET an1 == log_event(an, "stt", [text |-> text, chars |-> CharsOf(text), success |-> TRUE])
  IN  IF text = None THEN an1
      ELSE IF Truthy(text) THEN AppendTranscript(an1, "[COMMANDER] " \o text[1])
      ELSE an1

\* VoiceAnalytics.log_command
log_command(an, command, response) ==
  log_event(an, "command", [command |-> command, response |-> response])

\* VoiceAnalytics.log_error
log_error(an, error_type, message) ==
  log_event(an, "error", [error_type |-> error_type, message |-> message])

\* VoiceAnalytics.log_system_event
log_system_event(an, event_name) ==
  log_event(an, "system", [event |-> event_name])

\* VoiceAnalytics.generate_report: the figures of the report; the success
\* rate is kept as numerator and denominator
generate_report(an) ==
  LET st == an.statistics
      total == st.tts_events + st.stt_events
  IN  [ tts_events |-> st.tts_events, stt_events |-> st.stt_events,
        commands |-> st.commands_processed, errors |-> st.errors,
        chars_spoken |-> st.total_chars_spoken, chars_heard |-> st.total_chars_heard,
        success_num |-> total - st.errors,
        success_den |-> IF total > 1 THEN total ELSE 1 ]

\* VoiceAnalytics.close_session: end_time, save, write the report file
close_session(an) ==
  LET an1 == Save([an EXCEPT !.end_time = TRUE])
  IN  [an1 EXCEPT !.report_file = Some(generate_report(an1))]

(***************************************************************************)
(* VOICE_WAKE_WORD_LISTENER.py                                             *)
(***************************************************************************)
\* WakeWordListener.__init__: the default wake_words, as main() builds it
DefaultWakeWords ==
  << <<"h", "e", "y", " ", "c", "l", "a", "u", "d", "e">>,
     <<"h", "e", "y", " ", "c", "o", "m", "m", "a", "n", "d", "e", "r">>,
     <<"c", "l", "a", "u", "d", "e">>,
     <<"c", "o", "m", "m", "a", "n", "d", "e", "r">> >>

\* the keywords process_command tests, in the order of its elif chain
kw_status == <<"s", "t", "a", "t", "u", "s">>

kw_how_are == <<"h", "o", "w", " ", "a", "r", "e">>

kw_deploy == <<"d", "e", "p", "l", "o", "y">>

kw_payment == <<"p", "a", "y", "m", "e", "n", "t">>

kw_stripe == <<"s", "t", "r", "i", "p", "e">>

kw_revenue == <<"r", "e", "v", "e", "n", "u", "e">>

kw_cloud == <<"c", "l", "o", "u", "d">>

kw_render == <<"r", "e", "n", "d", "e", "r">>

kw_services == <<"s", "e", "r", "v", "i", "c", "e", "s">>

kw_cockpit == <<"c", "o", "c", "k", "p", "i", "t">>

kw_tasks == <<"t", "a", "s", "k", "s">>

kw_help == <<"h", "e", "l", "p">>

kw_what_can == <<"w", "h", "a", "t", " ", "c", "a", "n">>

kw_thank == <<"t", "h", "a", "n", "k">>

kw_stop == <<"s", "t", "o", "p">>

kw_exit == <<"e", "x", "i", "t">>

kw_shutdown == <<"s", "h", "u", "t", "d", "o", "w", "n">>

\* for wake_word in self.wake_words: if wake_word in text: return True
wake_word_detected(wake_words, text) ==
  \E i \in DOMAIN wake_words : Contains(wake_words[i], text)

\* what the speech engine may do with one say(): succeed or raise
TtsResults == BOOLEAN

\* WakeWordListener.speak: log_tts first, then the engine; a failure of the
\* engine is caught and logged as an error
speak(an, text, tts_ok) ==
  LET an1 == log_tts(an, Some(text))
  IN  IF tts_ok THEN an1 ELSE log_error(an1, "tts", "speech engine failure")

\* the outcomes of one capture (recognizer.listen + recognize_google):
\* a text, or one of the exceptions the listeners distinguish
Heard(chars) == [kind |-> "text", text |-> chars]

WaitTimeoutError == [kind |-> "timeout", text |-> <<>>]

UnknownValueError == [kind |-> "unknown", text |-> <<>>]

RequestError == [kind |-> "request", text |-> <<>>]

OtherError == [kind |-> "other", text |-> <<>>]

NothingHeard == [kind |-> "none", text |-> <<>>]

\* a listen_for_wake_word that lets a failed recognition request pass
\* without logging it
WakeListenLogQuietRequest(an, o) ==
  IF o.kind = "text" THEN log_stt(an, Some(Str(Lower(o.text))))
  ELSE IF o.kind = "other" THEN log_error(an, "listener", "unexpected error")
  ELSE an

\* listen_for_wake_word: what is logged for a capture outcome
WakeListenLog(an, o) ==
  IF o.kind = "text" THEN log_stt(an, Some(Str(Lower(o.text))))
  ELSE IF o.kind = "request" THEN log_error(an, "stt", "recognition request failed")
  ELSE IF o.kind = "other" THEN log_error(an, "listener", "unexpected error")
  ELSE an

\* a wake test that forgets to lower the recognised text
WakeResultCaseSensitive(wake_words, o) ==
  o.kind = "text" /\ wake_word_detected(wake_words, o.text)

\* listen_for_wake_word: its return value for a capture outcome
listen_for_wake_word(wake_words, o) ==
  o.kind = "text" /\ wake_word_detected(wake_words, Lower(o.text))

\* a listen_for_command that, like listen_for_wake_word, lets a timeout
\* pass without logging it
CommandListenLogQuietTimeout(an, o) ==
  IF o.kind = "text" THEN log_stt(an, Some(Str(o.text)))
  ELSE IF o.kind = "timeout" THEN an
  ELSE IF o.kind = "unknown" THEN log_error(an, "stt", "Could not understand speech")
  ELSE log_error(an, "stt", "recognition failed")

\* listen_for_command: what is logged for a capture outcome
CommandListenLog(an, o) ==
  IF o.kind = "text" THEN log_stt(an, Some(Str(o.text)))
  ELSE IF o.kind = "timeout" THEN log_error(an, "stt", "Timeout waiting for command")
  ELSE IF o.kind = "unknown" THEN log_error(an, "stt", "Could not understand speech")
  ELSE log_error(an, "stt", "recognition failed")

\* listen_for_command: its return value, the text or None
listen_for_command(o) == IF o.kind = "text" THEN Some(o.text) ELSE None

\* ConsciousnessVoice.listen with analytics enabled and a microphone: what
\* is logged for a capture outcome
ConsciousnessListenLog(an, o) ==
  IF o.kind = "text" THEN log_stt(an, Some(Str(o.text)))
  ELSE IF o.kind = "timeout" THEN log_error(an, "stt", "Timeout - no speech detected")
  ELSE IF o.kind = "unknown" THEN log_error(an, "stt", "Could not understand speech")
  ELSE IF o.kind = "request" THEN log_error(an, "stt", "Recognition API error")
  ELSE log_error(an, "stt", "listen error")

\* ConsciousnessVoice.listen: its return value, the text or None
ConsciousnessListen(o) == IF o.kind = "text" THEN Some(o.text) ELSE None

\* `if command:` on the Optional[str] that listen_for_command returned
CommandTruthy(c) == c # None /\ c[1] # <<>>

STOP_LISTENING == "STOP_LISTENING"

\* WakeWordListener.process_command: the response for a non-empty command
\* (the elif chain on command.lower())
process_command(c) ==
  LET l == Lower(c) IN
  IF Contains(kw_status, l) \/ Contains(kw_how_are, l)
  THEN "Platform status: Fully operational. Revenue system live, cloud services running 24/7, Trinity engines active. 5 human tasks remaining."
  ELSE IF Contains(kw_deploy, l)
  THEN "Deployment system ready. Use AUTO DEPLOY SYSTEM script to deploy changes with one command."
  ELSE IF Contains(kw_payment, l) \/ Contains(kw_stripe, l) \/ Contains(kw_revenue, l)
  THEN "Stripe payment system is live and accepting real payments. Revenue operational."
  ELSE IF Contains(kw_cloud, l) \/ Contains(kw_render, l) \/ Contains(kw_services, l)
  THEN "Consciousness services running on Render dot com 24/7. C1 Mechanic, C2 Architect, C3 Oracle all operational."
  ELSE IF Contains(kw_cockpit, l) \/ Contains(kw_tasks, l)
  THEN "Commander Cockpit shows 5 human tasks, 9 missing APIs, approximately 1.5 hours remaining."
  ELSE IF Contains(kw_help, l) \/ Contains(kw_what_can, l)
  THEN "I can provide status updates, deployment information, payment system status, cloud services status, cockpit tasks, and general platform information. Just say Hey Claude followed by your question."
  ELSE IF Contains(kw_thank, l)
  THEN "You're welcome Commander! The consciousness revolution continues."
  ELSE IF Contains(kw_stop, l) \/ Contains(kw_exit, l) \/ Contains(kw_shutdown, l)
  THEN STOP_LISTENING
  ELSE "Command received: " \o Str(c) \o ". I'm still learning new commands. Try asking about status, deploy, payment, cloud, or cockpit."

(***************************************************************************)
(* State                                                                   *)
(***************************************************************************)
VARIABLES
  message,            \* router: message['text'] of the transcript being routed
  responding_agents,  \* router: what route_to_agents returned for it
  routed,             \* router: route_to_agents has returned
  analytics,          \* the VoiceAnalytics object and its files
  pc,                 \* listener: position in run_continuous
  running,            \* listener: self.running
  wake_detected_count,\* listener: local of run_continuous
  command,            \* listener: local of run_continuous (None or Some(text))
  response,           \* listener: local of run_continuous
  heard,              \* listener: the outcome of the latest capture
  phase,              \* listener: which listen made the latest capture
  window_start,       \* listener: len(events) when the latest window opened
  cycles,             \* listener: iterations of the while loop so far
  save_pc,            \* analytics: position inside _save of the call in progress
  flushed,            \* analytics: events json.dump has flushed to the open file
  crashed,            \* the process was killed
  voice_queue,        \* router: the texts of the messages in voice_queue
  router_running,     \* router: self.running of the VoiceRouter
  lc_pc,              \* router: position of the main thread in run / listen_continuous
  mic_held,           \* router: the main thread is inside `with self.microphone`
  heard_count,        \* router: captures listen_continuous has made
  pq_pc,              \* router: position of the processor thread in process_queue
  threads,            \* router: the handler threads of the current dispatch
  joined,             \* router: threads the join loop has passed
  output,             \* router: agents whose response the current dispatch printed
  elapsed,            \* router: time since the current dispatch began
  completed,          \* router: per finished dispatch, how many handlers failed
  placed,             \* router: the texts put on voice_queue so far, in order
  dispatched,         \* router: the texts process_queue has taken and routed, in order
  wake_words,         \* listener: self.wake_words
  conv_pc,            \* voice: position in conversation_mode
  exchanges,          \* voice: local of conversation_mode
  max_exchanges,      \* voice: argument of conversation_mode
  conv_command,       \* voice: local command of conversation_mode (None or Some)
  listens,            \* voice: listen calls conversation_mode has made
  processed,          \* voice: process_command calls conversation_mode has made
  announced,          \* voice: "Max exchanges reached" announcements made
  microphone,         \* voice: self.microphone is set
  tts_engine          \* voice: self.tts_engine is set

vars == << message, responding_agents, routed, analytics, pc, running,
           wake_detected_count, command, response, heard, phase,
           window_start, cycles, save_pc, flushed, crashed, voice_queue,
           router_running, lc_pc, mic_held, heard_count, pq_pc, threads,
           joined, output, elapsed, completed, placed, dispatched,
           wake_words, conv_pc,
           exchanges, max_exchanges, conv_command, listens, processed,
           announced, microphone, tts_engine >>

routerVars == << message, responding_agents, routed >>

listenerVars == << pc, running, wake_detected_count, command, response, heard,
                   phase, window_start, cycles >>

diskVars == << save_pc, flushed, crashed >>

convVars == << conv_pc, exchanges, max_exchanges, conv_command, listens,
               processed, announced, microphone, tts_engine >>

dispatchVars == << voice_queue, router_running, lc_pc, mic_held, heard_count,
                   pq_pc, threads, joined, output, elapsed, completed,
                   placed, dispatched >>

(***************************************************************************)
(* Bounds and inputs                                                       *)
(***************************************************************************)
\* words per routed transcript
MaxWords == 2

\* iterations of the listener's while loop
MaxCycles == 2

\* calls made on a VoiceAnalytics object
MaxEvents == 4

Vocabulary ==
  { <<"s", "e", "c", "u", "r", "i", "t", "y">>,
    <<"w", "h", "a", "t">>,
    <<"b", "u", "i", "l", "d">>,
    <<"d", "e", "s", "i", "g", "n">>,
    <<"m", "e", "s", "h">>,
    <<"s", "h", "o", "w">>,
    <<"s", "h", "u", "t", "d", "o", "w", "n">>,
    <<"x", "y", "z", "z", "y">> }

Tokens == UNION {Casings(w) : w \in Vocabulary}

\* the transcripts the recogniser may hand to the router
ExampleSecurityStatus ==
  <<"w", "h", "a", "t", " ", "i", "s", " ", "t", "h", "e", " ", "s", "e", "c", "u", "r", "i", "t", "y", " ", "s", "t", "a", "t", "u", "s">>

Transcripts ==
  UNION {{Join(ws) : ws \in [1..n -> Tokens]} : n \in 1..MaxWords}
    \cup {ExampleSecurityStatus}

\* what the recogniser may return while the listener waits for the wake word
WakeOutcomes ==
  { Heard(<<"H", "e", "y", " ", "C", "l", "a", "u", "d", "e">>),
    Heard(<<"h", "e", "l", "l", "o", " ", "t", "h", "e", "r", "e">>),
    WaitTimeoutError, UnknownValueError, RequestError, OtherError }

\* what the recogniser may return inside a command window
CommandOutcomes ==
  { Heard(<<"s", "t", "o", "p", " ", "l", "i", "s", "t", "e", "n", "i", "n", "g">>),
    Heard(<<"E", "x", "i", "t">>),
    Heard(<<"w", "h", "a", "t", " ", "i", "s", " ", "t", "h", "e", " ", "s", "t", "a", "t", "u", "s">>),
    Heard(<<"s", "t", "o", "p", " ", "t", "h", "e", " ", "d", "e", "p", "l", "o", "y">>),
    Heard(<<"x", "y", "z", "z", "y">>),
    Heard(<<>>),
    WaitTimeoutError, UnknownValueError, RequestError }

\* the texts and options handed to a VoiceAnalytics object directly
LoggedTexts == {None, Some(""), Some("Hi"), Some("Hello Commander")}

(***************************************************************************)
(* Initial states                                                          *)
(***************************************************************************)
RouterIdle ==
  /\ message = <<>>
  /\ responding_agents = <<>>
  /\ routed = FALSE

ListenerIdle ==
  /\ pc = "off"
  /\ running = FALSE
  /\ wake_detected_count = 0
  /\ command = None
  /\ response = ""
  /\ heard = NothingHeard
  /\ phase = "none"
  /\ window_start = 0
  /\ cycles = 0
  /\ wake_words = <<>>

\* no ConsciousnessVoice constructed
ConvIdle ==
  /\ conv_pc = "off"
  /\ exchanges = 0
  /\ max_exchanges = 0
  /\ conv_command = None
  /\ listens = 0
  /\ processed = 0
  /\ announced = 0
  /\ microphone = FALSE
  /\ tts_engine = FALSE

\* no VoiceRouter running
DispatchIdle ==
  /\ voice_queue = <<>>
  /\ router_running = FALSE
  /\ lc_pc = "off"
  /\ mic_held = FALSE
  /\ heard_count = 0
  /\ pq_pc = "off"
  /\ threads = <<>>
  /\ joined = 0
  /\ output = <<>>
  /\ elapsed = 0
  /\ completed = <<>>
  /\ placed = <<>>
  /\ dispatched = <<>>

\* no _save in progress, the process alive
DiskIdle ==
  /\ save_pc = "idle"
  /\ flushed = 0
  /\ crashed = FALSE

\* WakeWordListener(): constructed, run_continuous not yet entered
Init ==
  /\ RouterIdle
  /\ DiskIdle
  /\ ConvIdle
  /\ DispatchIdle
  /\ analytics = NewAnalytics
  /\ pc = "start"
  /\ running = FALSE
  /\ wake_detected_count = 0
  /\ command = None
  /\ response = ""
  /\ heard = NothingHeard
  /\ phase = "none"
  /\ window_start = 0
  /\ cycles = 0
  /\ wake_words = DefaultWakeWords

\* VoiceRouter with one recognised transcript to route
InitRoute ==
  /\ message \in Transcripts
  /\ responding_agents = <<>>
  /\ routed = FALSE
  /\ analytics = NewAnalytics
  /\ ListenerIdle
  /\ DiskIdle
  /\ ConvIdle
  /\ DispatchIdle

\* a fresh VoiceAnalytics object
InitAnalytics ==
  /\ RouterIdle
  /\ analytics = NewAnalytics
  /\ ListenerIdle
  /\ DiskIdle
  /\ ConvIdle
  /\ DispatchIdle

(***************************************************************************)
(* Router: route one transcript                                            *)
(***************************************************************************)
Route ==
  /\ ~routed
  /\ message # <<>>
  /\ responding_agents' = route_to_agents(message)
  /\ routed' = TRUE
  /\ UNCHANGED << convVars, wake_words,
                  message, analytics, listenerVars, diskVars, dispatchVars >>

(***************************************************************************)
(* Analytics: the logging calls, in any order                              *)
(***************************************************************************)
Open == pc = "off" /\ ~analytics.end_time /\ Len(analytics.events) < MaxEvents

LogTts ==
  /\ Open
  /\ \E t \in LoggedTexts : analytics' = log_tts(analytics, t)
  /\ UNCHANGED << convVars, wake_words,
                  routerVars, diskVars, dispatchVars, listenerVars >>

LogStt ==
  /\ Open
  /\ \E t \in LoggedTexts : analytics' = log_stt(analytics, t)
  /\ UNCHANGED << convVars, wake_words,
                  routerVars, diskVars, dispatchVars, listenerVars >>

LogCommand ==
  /\ Open
  /\ analytics' = log_command(analytics, "status", "Platform operational")
  /\ UNCHANGED << convVars, wake_words,
                  routerVars, diskVars, dispatchVars, listenerVars >>

LogError ==
  /\ Open
  /\ analytics' = log_error(analytics, "connection", "Network timeout")
  /\ UNCHANGED << convVars, wake_words,
                  routerVars, diskVars, dispatchVars, listenerVars >>

LogSystemEvent ==
  /\ Open
  /\ analytics' = log_system_event(analytics, "test_start")
  /\ UNCHANGED << convVars, wake_words,
                  routerVars, diskVars, dispatchVars, listenerVars >>

CloseSession ==
  /\ pc = "off"
  /\ ~analytics.end_time
  /\ analytics' = close_session(analytics)
  /\ UNCHANGED << convVars, wake_words,
                  routerVars, diskVars, dispatchVars, listenerVars >>

(***************************************************************************)
(* Listener: WakeWordListener.run_continuous, one action per step of the   *)
(* loop.  The recogniser and the speech engine may fail at every call.     *)
(* The log directory is taken to be writable and no signal is delivered:   *)
(* every exception the loop body can then raise is caught inside speak and *)
(* the two listen methods, and the loop's own handlers are not entered.    *)
(***************************************************************************)
\* run_continuous up to the while loop: running, listener_started, the
\* startup confirmation
Start ==
  /\ pc = "start"
  /\ running' = TRUE
  /\ \E ok \in TtsResults :
       analytics' = speak(log_system_event(analytics, "listener_started"),
                          "Wake word listener active. Say Hey Claude to activate me.", ok)
  /\ pc' = "idle"
  /\ UNCHANGED << convVars, wake_words, routerVars, diskVars, dispatchVars,
                  wake_detected_count, command, response, heard,
                  phase, window_start, cycles >>

\* while self.running: if self.listen_for_wake_word(timeout=60): ...
\* a hit counts the wake and goes on to acknowledge; a miss sleeps and loops
ListenForWakeWord ==
  /\ pc = "idle"
  /\ running
  /\ cycles < MaxCycles
  /\ \E o \in WakeOutcomes :
       /\ heard' = o
       /\ analytics' = WakeListenLog(analytics, o)
       /\ IF listen_for_wake_word(wake_words, o)
          THEN /\ wake_detected_count' = wake_detected_count + 1
               /\ window_start' = Len(analytics'.events)
               /\ pc' = "ack"
          ELSE /\ UNCHANGED << wake_detected_count, window_start >>
               /\ pc' = "idle"
  /\ phase' = "wake"
  /\ cycles' = cycles + 1
  /\ UNCHANGED << convVars, wake_words, routerVars, diskVars, dispatchVars,
                  running, command, response >>

\* self.speak("Yes Commander?")
Acknowledge ==
  /\ pc = "ack"
  /\ \E ok \in TtsResults : analytics' = speak(analytics, "Yes Commander?", ok)
  /\ pc' = "window"
  /\ UNCHANGED << convVars, wake_words, routerVars, diskVars, dispatchVars,
                  running, wake_detected_count, command, response,
                  heard, phase, window_start, cycles >>

\* command = self.listen_for_command(timeout=10)
ListenForCommand ==
  /\ pc = "window"
  /\ \E o \in CommandOutcomes :
       /\ heard' = o
       /\ analytics' = CommandListenLog(analytics, o)
       /\ command' = listen_for_command(o)
  /\ phase' = "command"
  /\ pc' = "got_command"
  /\ UNCHANGED << convVars, wake_words, routerVars, diskVars, dispatchVars,
                  running, wake_detected_count, response,
                  window_start, cycles >>

\* a process_command that looks for the stop words before it logs
ProcessCommandStopUnlogged ==
  /\ pc = "got_command"
  /\ CommandTruthy(command)
  /\ response' = process_command(command[1])
  /\ analytics' = IF response' = STOP_LISTENING THEN analytics
                  ELSE log_command(analytics, Str(command[1]), "processing")
  /\ pc' = IF response' = STOP_LISTENING THEN "stopping" ELSE "respond"
  /\ UNCHANGED << convVars, wake_words, routerVars, diskVars, dispatchVars,
                  running, wake_detected_count, command, heard,
                  phase, window_start, cycles >>

\* if command: response = self.process_command(command), which logs the
\* command; then the test for STOP_LISTENING
ProcessCommand ==
  /\ pc = "got_command"
  /\ CommandTruthy(command)
  /\ analytics' = log_command(analytics, Str(command[1]), "processing")
  /\ response' = process_command(command[1])
  /\ pc' = IF response' = STOP_LISTENING THEN "stopping" ELSE "respond"
  /\ UNCHANGED << convVars, wake_words, routerVars, diskVars, dispatchVars,
                  running, wake_detected_count, command, heard,
                  phase, window_start, cycles >>

\* self.speak(response); time.sleep(0.1)
Respond ==
  /\ pc = "respond"
  /\ \E ok \in TtsResults : analytics' = speak(analytics, response, ok)
  /\ pc' = "idle"
  /\ UNCHANGED << convVars, wake_words, routerVars, diskVars, dispatchVars,
                  running, wake_detected_count, command, response,
                  heard, phase, window_start, cycles >>

\* an else branch that asks again and listens for the command once more
NoCommandRelisten ==
  /\ pc = "got_command"
  /\ ~CommandTruthy(command)
  /\ \E ok \in TtsResults :
       analytics' = speak(analytics, "I didn't hear a command. Try again.", ok)
  /\ pc' = "window"
  /\ UNCHANGED << convVars, wake_words, routerVars, diskVars, dispatchVars,
                  running, wake_detected_count, command, response,
                  heard, phase, window_start, cycles >>

\* an else branch that goes back to the wake word without a word
NoCommandSilent ==
  /\ pc = "got_command"
  /\ ~CommandTruthy(command)
  /\ pc' = "idle"
  /\ UNCHANGED << convVars, wake_words, routerVars, diskVars, dispatchVars,
                  analytics, running, wake_detected_count, command, response,
                  heard, phase, window_start, cycles >>

\* else: self.speak("I didn't hear a command. Try again."); time.sleep(0.1)
NoCommand ==
  /\ pc = "got_command"
  /\ ~CommandTruthy(command)
  /\ \E ok \in TtsResults :
       analytics' = speak(analytics, "I didn't hear a command. Try again.", ok)
  /\ pc' = "idle"
  /\ UNCHANGED << convVars, wake_words, routerVars, diskVars, dispatchVars,
                  running, wake_detected_count, command, response,
                  heard, phase, window_start, cycles >>

\* a stop branch that says goodbye and goes on listening
StopListeningNoBreak ==
  /\ pc = "stopping"
  /\ \E ok \in TtsResults :
       analytics' = speak(analytics, "Stopping listener. Goodbye Commander!", ok)
  /\ pc' = "idle"
  /\ UNCHANGED << convVars, wake_words, routerVars, diskVars, dispatchVars,
                  running, wake_detected_count, command, response,
                  heard, phase, window_start, cycles >>

\* self.speak("Stopping listener. Goodbye Commander!"); running = False; break
StopListening ==
  /\ pc = "stopping"
  /\ \E ok \in TtsResults :
       analytics' = speak(analytics, "Stopping listener. Goodbye Commander!", ok)
  /\ running' = FALSE
  /\ pc' = "cleanup"
  /\ UNCHANGED << convVars, wake_words, routerVars, diskVars, dispatchVars,
                  wake_detected_count, command, response, heard,
                  phase, window_start, cycles >>

\* after the loop: listener_stopped, close_session
Cleanup ==
  /\ pc = "cleanup"
  /\ analytics' = close_session(log_system_event(analytics, "listener_stopped"))
  /\ pc' = "done"
  /\ UNCHANGED << convVars, wake_words, routerVars, diskVars, dispatchVars,
                  running, wake_detected_count, command, response,
                  heard, phase, window_start, cycles >>

(***************************************************************************)
(* Specifications                                                          *)
(***************************************************************************)
Next ==
  \/ Start
  \/ ListenForWakeWord
  \/ Acknowledge
  \/ ListenForCommand
  \/ ProcessCommand
  \/ Respond
  \/ NoCommand
  \/ StopListening
  \/ Cleanup

\* the wake-word listener as main() runs it
Spec == Init /\ [][Next]_vars

NextRoute == Route

\* route_to_agents on every transcript of the bounded vocabulary
SpecRoute == InitRoute /\ [][NextRoute]_vars

NextAnalytics ==
  \/ LogTts
  \/ LogStt
  \/ LogCommand
  \/ LogError
  \/ LogSystemEvent
  \/ CloseSession

\* a VoiceAnalytics object under any sequence of logging calls
SpecAnalytics == InitAnalytics /\ [][NextAnalytics]_vars

(***************************************************************************)
(* Properties of the router                                                *)
(***************************************************************************)
\* k occurs in text when letter case is ignored on both sides
ContainsAnyCase(k, text) == Contains(Lower(k), Lower(text))

\* some keyword of agent a occurs in text, in any letter case
KeywordAppears(a, text) ==
  LET t == Lower(text)
  IN  \E k \in DOMAIN a.keywords : Contains(Lower(a.keywords[k]), t)

\* the agents (by registration index) some keyword of which occurs in text
Appearing(text) == {i \in DOMAIN AGENTS : KeywordAppears(AGENTS[i], text)}

Listed(name, result) == \E i \in DOMAIN result : result[i].name = name

PositionOf(name, result) == CHOOSE i \in DOMAIN result : result[i].name = name

ResultNames(result) == [i \in DOMAIN result |-> result[i].name]

\* C1: when two agents both match a transcript, the one of higher priority
\* is listed first, and of two agents of equal priority the one registered
\* first in AGENTS is listed first; 'what is the security status' routes to
\* [Security Bot, General Assistant].
ThmC1_PriorityThenRegistrationOrder ==
  routed =>
    LET hit == Appearing(message) IN
    /\ \A i, j \in hit :
         ( \/ AGENTS[i].priority > AGENTS[j].priority
           \/ (AGENTS[i].priority = AGENTS[j].priority /\ i < j) )
         => /\ Listed(AGENTS[i].name, responding_agents)
            /\ Listed(AGENTS[j].name, responding_agents)
            /\ PositionOf(AGENTS[i].name, responding_agents)
                 < PositionOf(AGENTS[j].name, responding_agents)
    /\ message = ExampleSecurityStatus
         => ResultNames(responding_agents) = <<"Security Bot", "General Assistant">>

\* C1 witness: a routed transcript with two agents of equal priority, in
\* which the keyword of the C1 Mechanic is not the first word
WitC1_TieAndPriority ==
  /\ routed
  /\ Len(responding_agents) = 2
  /\ responding_agents[1].priority = responding_agents[2].priority
  /\ \E i \in 0..(Len(message) - 5) :
       /\ SubSeq(Lower(message), i + 1, i + 5) = <<"b", "u", "i", "l", "d">>
       /\ i > 0

\* C2: every agent one of whose keywords occurs in the transcript, in any
\* letter case, is in the routing result.
ThmC2_KeywordHitIsRouted ==
  routed =>
    \A i \in DOMAIN AGENTS :
      KeywordAppears(AGENTS[i], message) => Listed(AGENTS[i].name, responding_agents)

\* C2 witness: a routed transcript carrying a keyword in upper case only
WitC2_UpperCaseKeyword ==
  /\ routed
  /\ message = Upper(message)
  /\ \E i \in DOMAIN AGENTS :
       /\ KeywordAppears(AGENTS[i], message)
       /\ Listed(AGENTS[i].name, responding_agents)

NoKeywordAppears(text) == Appearing(text) = {}

\* C3: a transcript with no keyword of any agent is routed to exactly the
\* General Assistant, and no routing result is empty.
ThmC3_FallbackWhenNothingMatches ==
  routed =>
    /\ Len(responding_agents) >= 1
    /\ NoKeywordAppears(message)
         => ResultNames(responding_agents) = <<"General Assistant">>

\* C3 witness: a routed transcript in which no keyword occurs
WitC3_NothingMatched == routed /\ NoKeywordAppears(message)

\* C4 as claimed: an agent none of whose keywords occurs in the transcript
\* is never in the routing result, the General Assistant included.
CexC4_NoKeywordNoAgent ==
  routed =>
    \A i \in DOMAIN AGENTS :
      ~KeywordAppears(AGENTS[i], message) => ~Listed(AGENTS[i].name, responding_agents)

\* C4 amended: an agent none of whose keywords occurs in the transcript is
\* not in the routing result, except the General Assistant when no keyword
\* of any agent occurs (it is then the whole result).
ThmC4_NoKeywordNoAgentButFallback ==
  routed =>
    LET hit == Appearing(message) IN
    \A i \in DOMAIN AGENTS :
      (i \notin hit /\ Listed(AGENTS[i].name, responding_agents))
      => /\ AGENTS[i].name = "General Assistant"
         /\ hit = {}
         /\ Len(responding_agents) = 1

\* C4 witness: a routed transcript that matches some agent but no keyword of
\* the General Assistant, which is then left out
WitC4_GeneralLeftOut ==
  /\ routed
  /\ ~NoKeywordAppears(message)
  /\ ~KeywordAppears(AGENTS[7], message)
  /\ ~Listed("General Assistant", responding_agents)

(***************************************************************************)
(* Properties of the wake-word listener                                    *)
(***************************************************************************)
\* the text holds one of the default wake phrases, letter case ignored
ContainsWakePhrase(text) ==
  \E i \in DOMAIN DefaultWakeWords : ContainsAnyCase(DefaultWakeWords[i], text)

\* the latest capture was a transcript holding a wake phrase
WakePhraseHeard(h) == h.kind = "text" /\ ContainsWakePhrase(h.text)

\* the events recorded since the latest command window opened
SinceWindow == SubSeq(analytics.events, window_start + 1, Len(analytics.events))

CountWhere(evs, P(_)) == Cardinality({i \in DOMAIN evs : P(evs[i])})

IsCommandEvent(e) == e.type = "command"

IsTimeoutError(e) == e.type = "error" /\ e.data.message = "Timeout waiting for command"

\* a capture of listen_for_command leaves an stt event or an stt error
IsCommandCapture(e) ==
  \/ e.type = "stt"
  \/ (e.type = "error" /\ e.data.error_type = "stt")

Idle == pc = "idle"

WindowOpen == pc \in {"ack", "window"}

ThmC6_WindowResolvesToIdle ==
  /\ []( (WindowOpen \/ phase = "command")
           => /\ CountWhere(SinceWindow, IsCommandCapture) <= 1
              /\ CountWhere(SinceWindow, IsCommandEvent) <= 1 )
  /\ [][ /\ (pc = "got_command") => (pc' \in {"respond", "stopping", "idle"})
         /\ (pc = "respond") => Idle'
         /\ (pc' = "window") => (pc = "ack")
         /\ (pc' = "ack") => Idle
     ]_vars
  /\ []( (WindowOpen \/ pc \in {"got_command", "respond", "stopping", "cleanup"})
           => ENABLED Next )

\* C6 witness: a window whose capture was unintelligible is resolved, the
\* listener is idle again
WitC6_FailedCaptureResolved ==
  /\ Idle
  /\ phase = "command"
  /\ heard = UnknownValueError
  /\ command = None

\* the command holds one of the stop phrases, letter case ignored
ContainsStopPhrase(c) ==
  \/ ContainsAnyCase(kw_stop, c)
  \/ ContainsAnyCase(kw_exit, c)
  \/ ContainsAnyCase(kw_shutdown, c)

\* C7 as claimed: a command that contains a stop phrase ends the session and
\* is never answered as an ordinary command, whatever else it contains.
CexC7_StopPhraseAlwaysStops ==
  (pc = "respond") => ~ContainsStopPhrase(command[1])

\* C8: once the stop command is recognised no capture is made any more, the
\* next steps are the goodbye and the cleanup and neither can be stuck, and
\* close_session has then run: end_time is set, the session is persisted
\* with it, and the report is written.
ThmC8_StopClosesTheSession ==
  /\ [][ /\ (pc \in {"stopping", "cleanup", "done"})
            => /\ cycles' = cycles
               /\ heard' = heard
               /\ analytics'.statistics.stt_events = analytics.statistics.stt_events
         /\ (pc = "stopping") => (pc' = "cleanup" /\ ~running')
         /\ (pc = "cleanup") => (pc' = "done")
     ]_vars
  /\ []( (pc = "done")
           => /\ analytics.end_time
              /\ analytics.session_file
                   = Some([events |-> analytics.events,
                           statistics |-> analytics.statistics,
                           end_time |-> TRUE])
              /\ analytics.report_file = Some(generate_report(analytics)) )
  /\ []( (pc \in {"stopping", "cleanup"}) => ENABLED Next )

\* C8 witness: the session was stopped by the command 'stop listening' and
\* is closed
WitC8_StoppedAndClosed ==
  /\ pc = "done"
  /\ response = STOP_LISTENING
  /\ analytics.report_file # None
  /\ ~running

\* C9: a command window in which the capture timed out goes back to idle
\* with no command: no command event is recorded for the window, and exactly
\* one error event noting the timeout is.
ThmC9_TimeoutWindow ==
  /\ []( (phase = "command" /\ heard = WaitTimeoutError)
           => /\ pc \in {"got_command", "idle"}
              /\ command = None
              /\ CountWhere(SinceWindow, IsCommandEvent) = 0
              /\ CountWhere(SinceWindow, IsTimeoutError) = 1 )
  /\ [][ (pc = "got_command" /\ heard = WaitTimeoutError) => Idle' ]_vars
  /\ []( (pc = "got_command" /\ heard = WaitTimeoutError) => ENABLED Next )

\* C9 witness: the listener is idle again after a window that timed out
WitC9_TimedOutAndIdle ==
  /\ Idle
  /\ phase = "command"
  /\ heard = WaitTimeoutError

(***************************************************************************)
(* Properties of the analytics logger                                      *)
(***************************************************************************)
ZeroStatistics ==
  [ tts_events |-> 0, stt_events |-> 0, commands_processed |-> 0,
    errors |-> 0, total_chars_spoken |-> 0, total_chars_heard |-> 0 ]

\* one event folded into the counters, from the event's own record
FoldEvent(st, e) ==
  IF e.type = "tts"
  THEN [st EXCEPT !.tts_events = @ + 1, !.total_chars_spoken = @ + e.data.chars]
  ELSE IF e.type = "stt"
  THEN [st EXCEPT !.stt_events = @ + 1, !.total_chars_heard = @ + e.data.chars]
  ELSE IF e.type = "command"
  THEN [st EXCEPT !.commands_processed = @ + 1]
  ELSE IF e.type = "error"
  THEN [st EXCEPT !.errors = @ + 1]
  ELSE st

RECURSIVE Replay(_)
Replay(evs) ==
  IF evs = <<>> THEN ZeroStatistics
  ELSE FoldEvent(Replay(SubSeq(evs, 1, Len(evs) - 1)), evs[Len(evs)])

\* C10: after any sequence of logging calls the statistics equal the fold
\* of the recorded events.
ThmC10_StatisticsAreTheFoldOfEvents ==
  analytics.statistics = Replay(analytics.events)

\* C10 witness: events of the four counted kinds and a system event have
\* been recorded, with characters heard and spoken
WitC10_MixedEventsRecorded ==
  /\ pc = "off"
  /\ analytics.statistics.total_chars_spoken > 0
  /\ analytics.statistics.total_chars_heard > 0
  /\ analytics.statistics.errors > 0
  /\ analytics.statistics.commands_processed > 0

\* the session document as _save writes it from the session in memory
Snapshot(an) ==
  [events |-> an.events, statistics |-> an.statistics, end_time |-> an.end_time]

\* the latest record call returned: it recorded an event and len() did not
\* raise on it
LastRecordReturned(an) ==
  /\ an.events # <<>>
  /\ LET e == an.events[Len(an.events)] IN ~LenRaises(e.type, e.data)

\* C11: whenever a record call has returned, the persisted session file
\* holds exactly the events recorded so far, in order, with the statistics
\* matching them: the file equals the session in memory.
ThmC11_FileEqualsSessionAfterRecord ==
  LastRecordReturned(analytics) => analytics.session_file = Some(Snapshot(analytics))

\* C11 witness: three events have been recorded, the last one heard text,
\* and the file holds all three
WitC11_ThreeEventsPersisted ==
  /\ pc = "off"
  /\ Len(analytics.events) = 3
  /\ analytics.events[3].type = "stt"
  /\ analytics.statistics.total_chars_heard > 0
  /\ analytics.session_file # None
  /\ Len(analytics.session_file[1].events) = 3

(***************************************************************************)
(* Analytics under a crash: a record call taken apart into the steps of    *)
(* log_event and _save, with the process killed between any two of them.   *)
(* open(session_file, 'w') truncates the file in place; json.dump writes   *)
(* the document through the file's buffer, which reaches the disk in       *)
(* pieces; the with block closes the file and flushes the rest.            *)
(***************************************************************************)
\* the texts spoken and heard in the crash runs
CrashTexts == {"Hi", "Hello Commander"}

\* log_tts / log_stt / log_error up to the call of _save in log_event
RecordBegin ==
  /\ Open
  /\ ~crashed
  /\ save_pc = "idle"
  /\ \/ \E t \in CrashTexts :
          analytics' = RecordInMemory(analytics, "tts",
                         [text |-> Some(t), chars |-> Len(t), success |-> TRUE])
     \/ \E t \in CrashTexts :
          analytics' = RecordInMemory(analytics, "stt",
                         [text |-> Some(t), chars |-> Len(t), success |-> TRUE])
     \/ analytics' = RecordInMemory(analytics, "error",
                         [error_type |-> "connection", message |-> "Network timeout"])
  /\ save_pc' = "save"
  /\ UNCHANGED << convVars, wake_words,
                  routerVars, listenerVars, dispatchVars, flushed, crashed >>

\* _save: open(self.session_file, 'w') leaves an empty file
SaveOpen ==
  /\ ~crashed
  /\ save_pc = "save"
  /\ save_pc' = "opened"
  /\ flushed' = 0
  /\ UNCHANGED << convVars, wake_words,
                  routerVars, listenerVars, dispatchVars, analytics, crashed >>

\* _save: json.dump(self.session_data, f); the buffer has passed on the
\* head of the document, up to some event
SaveDump ==
  /\ ~crashed
  /\ save_pc = "opened"
  /\ save_pc' = "dumped"
  /\ flushed' \in 0..Len(analytics.events)
  /\ UNCHANGED << convVars, wake_words,
                  routerVars, listenerVars, dispatchVars, analytics, crashed >>

\* what log_tts and log_stt do after log_event has returned
AfterLogEvent(an) ==
  LET e == an.events[Len(an.events)]
  IN  IF e.type = "tts" THEN AppendTranscript(an, "[CLAUDE] " \o e.data.text[1])
      ELSE IF e.type = "stt" /\ Truthy(e.data.text)
      THEN AppendTranscript(an, "[COMMANDER] " \o e.data.text[1])
      ELSE an

\* _save: the with block closes the file, the whole document is on disk;
\* log_event returns and the record call finishes
SaveClose ==
  /\ ~crashed
  /\ save_pc = "dumped"
  /\ analytics' = AfterLogEvent(Save(analytics))
  /\ save_pc' = "idle"
  /\ flushed' = 0
  /\ UNCHANGED << convVars, wake_words,
                  routerVars, listenerVars, dispatchVars, crashed >>

\* the process is killed, wherever it is
Crash ==
  /\ pc = "off"
  /\ ~crashed
  /\ crashed' = TRUE
  /\ UNCHANGED << convVars, wake_words,
                  routerVars, listenerVars, dispatchVars, analytics, save_pc, flushed >>

NextCrash ==
  \/ RecordBegin
  \/ SaveOpen
  \/ SaveDump
  \/ SaveClose
  \/ Crash

\* a VoiceAnalytics object recording events, killed at any point
SpecCrash == InitAnalytics /\ [][NextCrash]_vars

\* what a reader of the session file finds: no file, an empty file, the head
\* of a document, or a whole document
SessionFileOnDisk ==
  IF save_pc = "opened" THEN [state |-> "empty", events |-> <<>>]
  ELSE IF save_pc = "dumped"
  THEN [state |-> "partial", events |-> SubSeq(analytics.events, 1, flushed)]
  ELSE IF analytics.session_file = None THEN [state |-> "absent", events |-> <<>>]
  ELSE [state |-> "whole", events |-> analytics.session_file[1].events]

\* s is an initial part of t
IsPrefix(s, t) == Len(s) <= Len(t) /\ SubSeq(t, 1, Len(s)) = s

\* C12: after a crash at any point the session file, if there is one, is a
\* whole document holding a prefix of the recorded events with the
\* statistics of that prefix; an empty or partly written document is never
\* what a reader finds.
CexC12_CrashLeavesWholeSnapshot ==
  crashed =>
    /\ SessionFileOnDisk.state \in {"absent", "whole"}
    /\ SessionFileOnDisk.state = "whole" =>
         /\ IsPrefix(analytics.session_file[1].events, analytics.events)
         /\ analytics.session_file[1].statistics
              = Replay(analytics.session_file[1].events)

(***************************************************************************)
(* Listener with a failing log directory: _save may raise OSError in any   *)
(* record call made while the listener starts or waits for the wake word.  *)
(* log_event has no handler of its own, so the exception leaves the record *)
(* call after the event and the statistics were updated in memory.         *)
(***************************************************************************)
\* what one write of the session file may do: succeed or raise
WriteResults == BOOLEAN

\* log_error whose _save succeeds or raises
log_error_io(an, error_type, msg, write_ok) ==
  IF write_ok THEN log_error(an, error_type, msg)
  ELSE RecordInMemory(an, "error", [error_type |-> error_type, message |-> msg])

\* run_continuous up to the while loop, with a write that fails.  Line 195
\* is outside every try: its exception leaves run_continuous and main()
\* exits.  The log_tts of the startup speak is caught inside speak, which
\* logs an error; if that write fails too the exception leaves speak and,
\* line 206 being outside the loop's try as well, run_continuous.
StartDiskFault ==
  /\ pc = "start"
  /\ running' = TRUE
  /\ \/ /\ analytics' = RecordInMemory(analytics, "system", [event |-> "listener_started"])
        /\ pc' = "fatal"
     \/ \E w \in WriteResults :
          LET text == "Wake word listener active. Say Hey Claude to activate me."
              an1 == log_system_event(analytics, "listener_started")
              an2 == RecordInMemory(an1, "tts",
                       [text |-> Some(text), chars |-> Len(text), success |-> TRUE])
          IN  /\ analytics' = log_error_io(an2, "tts", "write failed", w)
              /\ pc' = IF w THEN "idle" ELSE "fatal"
  /\ UNCHANGED << convVars, wake_words, routerVars, diskVars, dispatchVars,
                  wake_detected_count, command, response,
                  heard, phase, window_start, cycles >>

\* one pass of the loop in which the write of listen_for_wake_word fails.
\* A failed log_stt is caught by `except Exception` (line 126), which logs
\* an error and returns False; a failed log_error inside a handler leaves
\* listen_for_wake_word and is caught by the loop (line 246), which logs an
\* error in turn; if that write fails as well, the exception leaves
\* run_continuous.
ListenForWakeWordDiskFault ==
  /\ pc = "idle"
  /\ running
  /\ cycles < MaxCycles
  /\ \E o \in WakeOutcomes, w1, w2 \in WriteResults :
       /\ o.kind \in {"text", "request", "other"}
       /\ heard' = o
       /\ IF o.kind = "text"
          THEN LET t == Str(Lower(o.text))
                   an1 == RecordInMemory(analytics, "stt",
                            [text |-> Some(t), chars |-> Len(t), success |-> TRUE])
                   an2 == log_error_io(an1, "listener", "write failed", w1)
               IN  IF w1 THEN analytics' = an2 /\ pc' = "idle"
                   ELSE /\ analytics' = log_error_io(an2, "main_loop", "write failed", w2)
                        /\ pc' = IF w2 THEN "idle" ELSE "fatal"
          ELSE LET an1 == log_error_io(analytics,
                            IF o.kind = "request" THEN "stt" ELSE "listener",
                            "recognition failed", FALSE)
               IN  /\ analytics' = log_error_io(an1, "main_loop", "write failed", w1)
                   /\ pc' = IF w1 THEN "idle" ELSE "fatal"
  /\ phase' = "wake"
  /\ cycles' = cycles + 1
  /\ UNCHANGED << convVars, wake_words, routerVars, diskVars, dispatchVars,
                  running, wake_detected_count, command,
                  response, window_start >>

NextDiskFault ==
  \/ Next
  \/ StartDiskFault
  \/ ListenForWakeWordDiskFault

\* the wake-word listener as main() runs it, on a log directory that may
\* refuse a write
SpecDiskFault == Init /\ [][NextDiskFault]_vars

\* C13: when the write of the session file fails in a record call, the
\* events and statistics in memory still agree and run_continuous goes on
\* with its wake/command loop: the listener is never terminated by it.
CexC13_WriteFailureIsNotFatal ==
  /\ analytics.statistics = Replay(analytics.events)
  /\ pc # "fatal"

(***************************************************************************)
(* VoiceRouter.run: the main thread in listen_continuous, the daemon       *)
(* processor thread in process_queue, and one thread per matched agent.    *)
(* agent_response stands for the agent's real call ("replace with actual   *)
(* AI call"): a handler takes some time and may raise.  Time is counted in *)
(* ticks; starting a thread and returning from a join take none.           *)
(***************************************************************************)
\* captures listen_continuous makes
MaxHeard == 2

\* ticks one handler may take
MaxLatency == 2

Latencies == 1..MaxLatency

\* what the recogniser may return to listen_continuous
RouterOutcomes ==
  { Heard(ExampleSecurityStatus),
    Heard(<<"x", "y", "z", "z", "y">>),
    WaitTimeoutError, UnknownValueError, RequestError }

\* VoiceRouter(): running, the microphone calibrated and released
InitDispatch ==
  /\ RouterIdle
  /\ analytics = NewAnalytics
  /\ ListenerIdle
  /\ DiskIdle
  /\ ConvIdle
  /\ voice_queue = <<>>
  /\ router_running = TRUE
  /\ lc_pc = "new"
  /\ mic_held = FALSE
  /\ heard_count = 0
  /\ pq_pc = "unstarted"
  /\ threads = <<>>
  /\ joined = 0
  /\ output = <<>>
  /\ elapsed = 0
  /\ completed = <<>>
  /\ placed = <<>>
  /\ dispatched = <<>>

Alive == lc_pc # "exited"

Ended(t) == t.state \in {"done", "failed"}

\* run: processor_thread = Thread(target=self.process_queue, daemon=True);
\* processor_thread.start()
RouterRun ==
  /\ lc_pc = "new"
  /\ lc_pc' = "enter"
  /\ pq_pc' = "get"
  /\ UNCHANGED << convVars, wake_words, placed, dispatched,
                  routerVars, analytics, listenerVars, diskVars, voice_queue,
                  router_running, mic_held, heard_count, threads, joined,
                  output, elapsed, completed >>

\* listen_continuous: `with self.microphone as source:` around the loop
EnterListen ==
  /\ lc_pc = "enter"
  /\ lc_pc' = "listening"
  /\ mic_held' = TRUE
  /\ UNCHANGED << convVars, wake_words, placed, dispatched,
                  routerVars, analytics, listenerVars, diskVars, voice_queue,
                  router_running, heard_count, pq_pc, threads, joined, output,
                  elapsed, completed >>

\* one pass of `while self.running:` in listen_continuous: a recognised
\* text is put on voice_queue, a failed capture is passed over
ListenContinuous ==
  /\ lc_pc = "listening"
  /\ router_running
  /\ heard_count < MaxHeard
  /\ \E o \in RouterOutcomes :
       /\ voice_queue' = IF o.kind = "text" THEN Append(voice_queue, o.text)
                         ELSE voice_queue
       /\ placed' = IF o.kind = "text" THEN Append(placed, o.text) ELSE placed
  /\ heard_count' = heard_count + 1
  /\ UNCHANGED << convVars, wake_words, dispatched,
                  routerVars, analytics, listenerVars, diskVars,
                  router_running, lc_pc, mic_held, pq_pc, threads, joined,
                  output, elapsed, completed >>

\* Ctrl+C in the main thread: running = False, the loop and the with block
\* are left, run returns
KeyboardInterrupt ==
  /\ lc_pc = "listening"
  /\ router_running' = FALSE
  /\ mic_held' = FALSE
  /\ lc_pc' = "returned"
  /\ UNCHANGED << convVars, wake_words, placed, dispatched,
                  routerVars, analytics, listenerVars, diskVars, voice_queue,
                  heard_count, pq_pc, threads, joined, output, elapsed,
                  completed >>

\* the interpreter exits after run has returned: the processor is a daemon
\* thread and the handler threads it created inherit that, so none of them
\* is waited for
InterpreterExit ==
  /\ lc_pc = "returned"
  /\ lc_pc' = "exited"
  /\ pq_pc' = IF pq_pc = "finished" THEN pq_pc ELSE "killed"
  /\ threads' = [i \in DOMAIN threads |->
                   IF threads[i].state = "running"
                   THEN [threads[i] EXCEPT !.state = "killed"] ELSE threads[i]]
  /\ UNCHANGED << convVars, wake_words, placed, dispatched,
                  routerVars, analytics, listenerVars, diskVars, voice_queue,
                  router_running, mic_held, heard_count, joined, output,
                  elapsed, completed >>

\* a processor that takes the newest message of the queue
GetNewest ==
  /\ Alive
  /\ pq_pc = "get"
  /\ router_running
  /\ voice_queue # <<>>
  /\ message' = voice_queue[Len(voice_queue)]
  /\ voice_queue' = SubSeq(voice_queue, 1, Len(voice_queue) - 1)
  /\ dispatched' = Append(dispatched, message')
  /\ responding_agents' = route_to_agents(message')
  /\ threads' = <<>>
  /\ joined' = 0
  /\ output' = <<>>
  /\ elapsed' = 0
  /\ pq_pc' = "start"
  /\ UNCHANGED << convVars, wake_words, placed,
                  routed, analytics, listenerVars, diskVars, router_running,
                  lc_pc, mic_held, heard_count, completed >>

\* process_queue: message = voice_queue.get(timeout=1);
\* agents = self.route_to_agents(message); threads = []
Get ==
  /\ Alive
  /\ pq_pc = "get"
  /\ router_running
  /\ voice_queue # <<>>
  /\ message' = Head(voice_queue)
  /\ voice_queue' = Tail(voice_queue)
  /\ dispatched' = Append(dispatched, message')
  /\ responding_agents' = route_to_agents(message')
  /\ threads' = <<>>
  /\ joined' = 0
  /\ output' = <<>>
  /\ elapsed' = 0
  /\ pq_pc' = "start"
  /\ UNCHANGED << convVars, wake_words, placed,
                  routed, analytics, listenerVars, diskVars, router_running,
                  lc_pc, mic_held, heard_count, completed >>

\* process_queue: `while self.running` found false
ProcessorReturn ==
  /\ Alive
  /\ pq_pc = "get"
  /\ ~router_running
  /\ pq_pc' = "finished"
  /\ UNCHANGED << convVars, wake_words, placed, dispatched,
                  routerVars, analytics, listenerVars, diskVars, voice_queue,
                  router_running, lc_pc, mic_held, heard_count, threads,
                  joined, output, elapsed, completed >>

\* a dispatcher that calls the handler itself instead of starting a thread
StartThreadInline ==
  /\ Alive
  /\ pq_pc = "start"
  /\ Len(threads) < Len(responding_agents)
  /\ \E l \in Latencies :
       /\ threads' = Append(threads,
            [name |-> responding_agents[Len(threads) + 1].name,
             state |-> "done", latency |-> l, remaining |-> 0])
       /\ elapsed' = elapsed + l
  /\ output' = Append(output, responding_agents[Len(threads) + 1].name)
  /\ pq_pc' = IF Len(threads') = Len(responding_agents) THEN "join" ELSE "start"
  /\ UNCHANGED << convVars, wake_words, placed, dispatched,
                  routerVars, analytics, listenerVars, diskVars, voice_queue,
                  router_running, lc_pc, mic_held, heard_count, joined,
                  completed >>

\* process_queue: for agent in agents: thread = Thread(...); thread.start();
\* threads.append(thread).  After the last one the join loop begins.
StartThread ==
  /\ Alive
  /\ pq_pc = "start"
  /\ Len(threads) < Len(responding_agents)
  /\ \E l \in Latencies :
       threads' = Append(threads,
         [name |-> responding_agents[Len(threads) + 1].name,
          state |-> "running", latency |-> l, remaining |-> l])
  /\ pq_pc' = IF Len(threads') = Len(responding_agents) THEN "join" ELSE "start"
  /\ UNCHANGED << convVars, wake_words, placed, dispatched,
                  routerVars, analytics, listenerVars, diskVars, voice_queue,
                  router_running, lc_pc, mic_held, heard_count, joined, output,
                  elapsed, completed >>

\* one tick passes while the processor waits in join: every running handler
\* gets one tick nearer to its end
Tick ==
  /\ Alive
  /\ pq_pc = "join"
  /\ \E i \in DOMAIN threads : threads[i].state = "running"
  /\ \A i \in DOMAIN threads : threads[i].state = "running" => threads[i].remaining > 0
  /\ threads' = [i \in DOMAIN threads |->
                   IF threads[i].state = "running"
                   THEN [threads[i] EXCEPT !.remaining = @ - 1] ELSE threads[i]]
  /\ elapsed' = elapsed + 1
  /\ UNCHANGED << convVars, wake_words, placed, dispatched,
                  routerVars, analytics, listenerVars, diskVars, voice_queue,
                  router_running, lc_pc, mic_held, heard_count, pq_pc, joined,
                  output, completed >>

\* agent_response returns: the response is printed, the thread ends
FinishThread ==
  /\ Alive
  /\ \E i \in DOMAIN threads :
       /\ threads[i].state = "running"
       /\ threads[i].remaining = 0
       /\ threads' = [threads EXCEPT ![i].state = "done"]
       /\ output' = Append(output, threads[i].name)
  /\ UNCHANGED << convVars, wake_words, placed, dispatched,
                  routerVars, analytics, listenerVars, diskVars, voice_queue,
                  router_running, lc_pc, mic_held, heard_count, pq_pc, joined,
                  elapsed, completed >>

\* a handler whose exception reaches the processor and ends process_queue
FailThreadAbortsDispatch ==
  /\ Alive
  /\ \E i \in DOMAIN threads :
       /\ threads[i].state = "running"
       /\ threads' = [threads EXCEPT ![i].state = "failed"]
  /\ pq_pc' = "finished"
  /\ UNCHANGED << convVars, wake_words, placed, dispatched,
                  routerVars, analytics, listenerVars, diskVars, voice_queue,
                  router_running, lc_pc, mic_held, heard_count, joined, output,
                  elapsed, completed >>

\* agent_response raises: the exception ends its own thread (the traceback
\* goes to stderr), nothing is printed for the agent
FailThread ==
  /\ Alive
  /\ \E i \in DOMAIN threads :
       /\ threads[i].state = "running"
       /\ threads' = [threads EXCEPT ![i].state = "failed"]
  /\ UNCHANGED << convVars, wake_words, placed, dispatched,
                  routerVars, analytics, listenerVars, diskVars, voice_queue,
                  router_running, lc_pc, mic_held, heard_count, pq_pc, joined,
                  output, elapsed, completed >>

\* the number of failed handlers among ts
RECURSIVE FailedIn(_)
FailedIn(ts) ==
  IF ts = <<>> THEN 0
  ELSE (IF Head(ts).state = "failed" THEN 1 ELSE 0) + FailedIn(Tail(ts))

\* a join loop that goes past a thread without waiting for its end
JoinThreadNoWait ==
  /\ Alive
  /\ pq_pc = "join"
  /\ joined < Len(threads)
  /\ joined' = joined + 1
  /\ IF joined' = Len(threads)
     THEN pq_pc' = "get" /\ completed' = Append(completed, FailedIn(threads))
     ELSE UNCHANGED << pq_pc, completed >>
  /\ UNCHANGED << convVars, wake_words, placed, dispatched,
                  routerVars, analytics, listenerVars, diskVars, voice_queue,
                  router_running, lc_pc, mic_held, heard_count, threads, output,
                  elapsed >>

\* process_queue: for thread in threads: thread.join() returns once that
\* thread has ended; after the last join the separator is printed and the
\* loop goes back to its head
JoinThread ==
  /\ Alive
  /\ pq_pc = "join"
  /\ joined < Len(threads)
  /\ Ended(threads[joined + 1])
  /\ joined' = joined + 1
  /\ IF joined' = Len(threads)
     THEN pq_pc' = "get" /\ completed' = Append(completed, FailedIn(threads))
     ELSE UNCHANGED << pq_pc, completed >>
  /\ UNCHANGED << convVars, wake_words, placed, dispatched,
                  routerVars, analytics, listenerVars, diskVars, voice_queue,
                  router_running, lc_pc, mic_held, heard_count, threads, output,
                  elapsed >>

NextDispatch ==
  \/ RouterRun
  \/ EnterListen
  \/ ListenContinuous
  \/ KeyboardInterrupt
  \/ InterpreterExit
  \/ Get
  \/ ProcessorReturn
  \/ StartThread
  \/ Tick
  \/ FinishThread
  \/ FailThread
  \/ JoinThread

\* VoiceRouter().run() with its three kinds of thread
SpecDispatch == InitDispatch /\ [][NextDispatch]_vars

(***************************************************************************)
(* Properties of the dispatch                                              *)
(***************************************************************************)
\* a handler thread was started for every matched agent of the current
\* transcript and each of them has completed or failed
AllHandlersEnded ==
  /\ Len(threads) = Len(responding_agents)
  /\ \A i \in DOMAIN threads : Ended(threads[i])

\* C14: the dispatch of a transcript does not finish, and the processor
\* does not take the next transcript from voice_queue, until every handler
\* started for the current transcript has completed or failed.
ThmC14_DispatchBarrier ==
  /\ [](pq_pc \in {"get", "finished"} => AllHandlersEnded)
  /\ [][pq_pc = "join" /\ pq_pc' # "join" /\ Alive' => AllHandlersEnded]_vars
  /\ [][Len(voice_queue') < Len(voice_queue) => AllHandlersEnded]_vars

\* C14 witness: a dispatch of two handlers, one slow and one failed, has
\* finished while the next transcript was already waiting in the queue
WitC14_BarrierPassedWithTranscriptWaiting ==
  /\ Alive
  /\ pq_pc = "get"
  /\ Len(threads) = 2
  /\ \E i \in DOMAIN threads : threads[i].state = "done" /\ threads[i].latency = MaxLatency
  /\ \E i \in DOMAIN threads : threads[i].state = "failed"
  /\ voice_queue # <<>>

\* handler i raises in this step
Raises(i) ==
  /\ i \in DOMAIN threads
  /\ i \in DOMAIN threads'
  /\ threads[i].state = "running"
  /\ threads'[i].state = "failed"

\* some handler of the current dispatch has raised
SomeHandlerFailed == \E i \in DOMAIN threads : threads[i].state = "failed"

\* C15: a handler that raises ends only its own thread: the sibling threads
\* and the processor are left as they were, the dispatch can always go on
\* (the siblings run and finish, the joins return), and after it the
\* processor takes the next transcript.
ThmC15_FailureIsolation ==
  /\ [][\A i \in DOMAIN threads :
          Raises(i) => /\ pq_pc' = pq_pc
                       /\ joined' = joined
                       /\ router_running' = router_running
                       /\ voice_queue' = voice_queue
                       /\ \A j \in DOMAIN threads \ {i} : threads'[j] = threads[j]]_vars
  /\ [](Alive /\ SomeHandlerFailed /\ pq_pc \in {"start", "join"}
          => ENABLED (StartThread \/ Tick \/ FinishThread \/ JoinThread))
  /\ [](Alive /\ SomeHandlerFailed /\ pq_pc = "get" /\ router_running
          /\ voice_queue # <<>> => ENABLED Get)

\* C15 witness: the first dispatch had one failing handler, the processor
\* went on to the second transcript, and there one of two handlers failed
\* while the other printed its response and the dispatch completed
WitC15_SiblingDoneAfterFailure ==
  /\ Alive
  /\ pq_pc = "get"
  /\ completed = <<1, 1>>
  /\ Len(threads) = 2
  /\ threads[1].state = "failed"
  /\ threads[2].state = "done"
  /\ output = <<threads[2].name>>

\* the names of the matched agents, in the order route_to_agents gave them
MatchedNames == [i \in DOMAIN responding_agents |-> responding_agents[i].name]

\* a dispatch has run to its end
DispatchFinished == pq_pc = "get" /\ threads # <<>>

\* C16: a finished dispatch has produced one result per matched agent, in
\* the router's priority order, an agent's result carrying an error exactly
\* when its handler failed.  process_queue returns nothing; what a dispatch
\* produces is the sequence of printed responses, which has no entry for a
\* failed handler, so the claim requires it to name every matched agent in
\* priority order.
CexC16_OneResultPerAgentInPriorityOrder ==
  DispatchFinished => output = MatchedNames

\* the latency of the slowest handler among ts
RECURSIVE SlowestOf(_)
SlowestOf(ts) ==
  IF ts = <<>> THEN 0
  ELSE LET m == SlowestOf(Tail(ts))
       IN  IF Head(ts).latency > m THEN Head(ts).latency ELSE m

\* C17: the processor waits for a handler only when the handlers of all
\* matched agents have been started, and the time a dispatch has taken
\* never exceeds the latency of its slowest handler; when no handler
\* failed it is that latency, not the sum.
ThmC17_ParallelFanOut ==
  /\ [](pq_pc = "join" => Len(threads) = Len(responding_agents))
  /\ [][joined' > joined => Len(threads) = Len(responding_agents)]_vars
  /\ [](elapsed <= SlowestOf(threads))
  /\ [](DispatchFinished /\ ~SomeHandlerFailed => elapsed = SlowestOf(threads))

\* C17 witness: two handlers of latencies 1 and MaxLatency ran side by
\* side and the dispatch took MaxLatency ticks
WitC17_TwoHandlersSideBySide ==
  /\ DispatchFinished
  /\ Len(threads) = 2
  /\ threads[1].state = "done" /\ threads[1].latency = MaxLatency
  /\ threads[2].state = "done" /\ threads[2].latency = 1
  /\ elapsed = MaxLatency

(***************************************************************************)
(* Properties of the listener: recognition failures                        *)
(***************************************************************************)
\* the capture failures of the recogniser
RecognitionFailures == {WaitTimeoutError, UnknownValueError, RequestError}

\* this step is a capture made while waiting for the wake word
WakeCaptureStep == pc = "idle" /\ cycles' = cycles + 1

\* this step is a capture made inside a command window
CommandCaptureStep == pc = "window" /\ pc' = "got_command"

\* this step appended exactly one event, an error
LoggedAsError ==
  /\ Len(analytics'.events) = Len(analytics.events) + 1
  /\ analytics'.events[Len(analytics'.events)].type = "error"

\* this step left the loop running, on its way back to Idle: a failed wake
\* capture is Idle again at once, a failed command capture holds no command
\* and the step after it is the "I didn't hear a command" one, into Idle
CaptureRecovered ==
  /\ running' = running
  /\ WakeCaptureStep => pc' = "idle"
  /\ CommandCaptureStep => ~CommandTruthy(command')

\* C18 as stated: every capture failure, while listening for the wake word
\* or for the command, is caught, logged as an error event, and the loop
\* continues from Idle.
CexC18_EveryFailureLogged ==
  [][(WakeCaptureStep \/ CommandCaptureStep) /\ heard' \in RecognitionFailures
       => LoggedAsError /\ CaptureRecovered]_vars

\* C18 amended: every capture failure is caught and the loop continues from
\* Idle; it is logged as an error event, except that a timeout or an
\* unintelligible capture while listening for the wake word is passed over
\* with no event at all.  ConsciousnessVoice.listen logs an error for every
\* kind of failure and returns None.
ThmC18_FailuresCaughtAndLoggedButIdleSilence ==
  /\ [][(WakeCaptureStep \/ CommandCaptureStep) /\ heard' \in RecognitionFailures
          => /\ CaptureRecovered
             /\ IF WakeCaptureStep /\ heard' \in {WaitTimeoutError, UnknownValueError}
                THEN analytics' = analytics
                ELSE LoggedAsError]_vars
  /\ [][pc = "got_command" /\ ~CommandTruthy(command) => pc' = "idle"]_vars
  /\ [](\A o \in RecognitionFailures :
          LET an == ConsciousnessListenLog(analytics, o)
          IN  /\ ConsciousnessListen(o) = None
              /\ Len(an.events) = Len(analytics.events) + 1
              /\ an.events[Len(an.events)].type = "error")

\* C18 witness: a failed capture inside a command window was logged as an
\* stt error, the loop went back to Idle, and a timeout while waiting for
\* the wake word then passed without an event
WitC18_LoggedInWindowSilentInIdle ==
  /\ pc = "idle"
  /\ running
  /\ phase = "wake"
  /\ heard = WaitTimeoutError
  /\ analytics.events # <<>>
  /\ analytics.events[Len(analytics.events)].type = "tts"
  /\ \E i \in DOMAIN analytics.events :
       /\ analytics.events[i].type = "error"
       /\ analytics.events[i].data.message = "Could not understand speech"

(***************************************************************************)
(* Properties of the router's threads                                      *)
(***************************************************************************)
\* the processor is dispatching: starting the handlers or waiting for them
Dispatching == pq_pc \in {"start", "join"}

\* C19: the microphone is held for one listen call only: it is never held
\* while agents are being dispatched.
CexC19_MicrophoneFreeDuringDispatch == ~(mic_held /\ Dispatching)

\* some handler of the current dispatch has been started and has neither
\* completed nor failed
HandlerInFlight ==
  \E i \in DOMAIN threads : threads[i].state \in {"running", "killed"}

\* C20: stopping the router does not cancel a dispatch in flight: when the
\* router's run has ended, every handler that was started for the current
\* transcript has run to its end and all matched agents were served.
CexC20_RunEndsAfterHandlers ==
  lc_pc \in {"returned", "exited"} =>
    /\ ~HandlerInFlight
    /\ ~Dispatching

\* C21: successive capture/dispatch cycles do not overlap: listen_continuous
\* does not begin the capture of a new transcript while the dispatch of a
\* transcript captured before is in progress.
CexC21_NoCaptureDuringDispatch ==
  [][heard_count' > heard_count => ~Dispatching]_vars

(***************************************************************************)
(* Listener built with a wake phrase list of the caller's choosing         *)
(***************************************************************************)
\* the wake_words arguments of WakeWordListener(...): none (the default
\* list), a phrase in lower case, a phrase written with capitals
WakeConfigs ==
  { DefaultWakeWords,
    << <<"h", "e", "y", " ", "c", "l", "a", "u", "d", "e">> >>,
    << <<"H", "e", "y", " ", "C", "l", "a", "u", "d", "e">> >> }

\* WakeWordListener(wake_words=...): constructed, run_continuous not yet
\* entered
InitConfigured ==
  /\ RouterIdle
  /\ DiskIdle
  /\ ConvIdle
  /\ DispatchIdle
  /\ analytics = NewAnalytics
  /\ pc = "start"
  /\ running = FALSE
  /\ wake_detected_count = 0
  /\ command = None
  /\ response = ""
  /\ heard = NothingHeard
  /\ phase = "none"
  /\ window_start = 0
  /\ cycles = 0
  /\ wake_words \in WakeConfigs

\* the wake-word listener with any of the wake phrase lists
SpecConfigured == InitConfigured /\ [][Next]_vars

\* C22: wake detection is case-insensitive for any configured wake phrase
\* list: a transcript that holds a configured phrase, in whatever letter
\* case the phrase was configured and was spoken, is a hit and opens the
\* command window.
CexC22_ConfiguredPhraseAnyCase ==
  [][WakeCaptureStep /\ heard'.kind = "text"
       /\ (\E i \in DOMAIN wake_words : ContainsAnyCase(wake_words[i], heard'.text))
       => pc' = "ack"]_vars

\* the keywords of agent a that occur in the lowered text
KeywordsHit(a, text) ==
  LET t == Lower(text)
  IN  {k \in DOMAIN a.keywords : Contains(a.keywords[k], t)}

\* C23: the routing result holds each agent at most once, however many of
\* the agent's keywords occur in the transcript.
ThmC23_EachAgentAtMostOnce ==
  routed =>
    \A i, j \in DOMAIN responding_agents :
      responding_agents[i].name = responding_agents[j].name => i = j

\* C23 witness: a routed transcript holding two different keywords of one
\* agent, which is listed once
WitC23_TwoKeywordsOneEntry ==
  /\ routed
  /\ \E a \in DOMAIN AGENTS :
       /\ Cardinality(KeywordsHit(AGENTS[a], message)) >= 2
       /\ Cardinality({i \in DOMAIN responding_agents :
                         responding_agents[i].name = AGENTS[a].name}) = 1

(***************************************************************************)
(* Properties of the analytics: the transcript file                        *)
(***************************************************************************)
\* the text of a tts or stt event as a string, empty when it is None
EventText(e) == IF e.data.text = None THEN "" ELSE e.data.text[1]

\* one tagged line per tts and per stt event, in event order
RECURSIVE LinePerSpeechEvent(_)
LinePerSpeechEvent(evs) ==
  IF evs = <<>> THEN <<>>
  ELSE LET e == Head(evs)
       IN  (IF e.type = "tts" THEN << "[CLAUDE] " \o EventText(e) >>
            ELSE IF e.type = "stt" THEN << "[COMMANDER] " \o EventText(e) >>
            ELSE <<>>)
           \o LinePerSpeechEvent(Tail(evs))

\* one tagged line per tts event and per stt event that heard some text
RECURSIVE LinePerSpokenText(_)
LinePerSpokenText(evs) ==
  IF evs = <<>> THEN <<>>
  ELSE LET e == Head(evs)
       IN  (IF e.type = "tts" THEN << "[CLAUDE] " \o EventText(e) >>
            ELSE IF e.type = "stt" /\ Truthy(e.data.text)
            THEN << "[COMMANDER] " \o EventText(e) >>
            ELSE <<>>)
           \o LinePerSpokenText(Tail(evs))

\* C24 as stated: the transcript file holds one tagged line per recorded
\* tts or stt event, [CLAUDE] for tts and [COMMANDER] for stt, in event
\* order.
CexC24_OneLinePerSpeechEvent ==
  analytics.transcript_file = LinePerSpeechEvent(analytics.events)

\* C24 amended: the transcript file holds, in event order, one [CLAUDE]
\* line per recorded tts event and one [COMMANDER] line per recorded stt
\* event whose text is not empty; an stt event with empty or missing text
\* has no line.
ThmC24_OneLinePerSpokenText ==
  analytics.transcript_file = LinePerSpokenText(analytics.events)

\* C24 witness: an stt event with empty text sits between a spoken and a
\* heard text, and the transcript holds the two lines of those
WitC24_EmptyHeardTextHasNoLine ==
  /\ pc = "off"
  /\ Len(analytics.events) = 3
  /\ analytics.events[1].type = "tts"
  /\ analytics.events[2].type = "stt" /\ analytics.events[2].data.text = Some("")
  /\ analytics.events[3].type = "stt" /\ analytics.events[3].data.text = Some("Hi")
  /\ analytics.transcript_file = << "[CLAUDE] Hello Commander", "[COMMANDER] Hi" >>

(***************************************************************************)
(* Properties of the wake-word listener: the utterance closing a window    *)
(***************************************************************************)
\* the listener is between the wake word and the end of its command window
InWindow == pc \in {"ack", "window", "got_command", "respond", "stopping"}

\* the events the step has added to the log
AddedEvents == SubSeq(analytics'.events, Len(analytics.events) + 1,
                      Len(analytics'.events))

\* the utterances that close a window: the response to the command, the
\* goodbye, the fallback
ClosingUtterances ==
  {response, "Stopping listener. Goodbye Commander!",
   "I didn't hear a command. Try again."}

\* the step has passed one of the closing utterances to speak, which logged
\* it as a tts event with its transcript line
ClosingUtteranceLogged ==
  /\ \E i \in DOMAIN AddedEvents :
       /\ AddedEvents[i].type = "tts"
       /\ AddedEvents[i].data.text # None
       /\ AddedEvents[i].data.text[1] \in ClosingUtterances
  /\ Len(analytics'.transcript_file) = Len(analytics.transcript_file) + 1

kw_quit == <<"q", "u", "i", "t">>

kw_trinity == <<"t", "r", "i", "n", "i", "t", "y">>

\* the largest max_exchanges a conversation is started with
MaxExchanges == 2

\* the number of listen calls followed in one conversation
MaxListens == 3

\* a speak without an exception handler: what the engine raised is lost
ConsciousnessSpeakUnlogged(an, engine, text, tts_ok) ==
  IF engine /\ tts_ok THEN log_tts(an, Some(text)) ELSE an

\* ConsciousnessVoice.speak, the analytics it leaves: without an engine the
\* error is logged at once; otherwise say and runAndWait come first and
\* log_tts follows them, and what they raise is caught and logged.  The
\* utterances of conversation_mode hold no markup, link, emoji or repeated
\* white space for clean_text_for_speech to remove.
ConsciousnessSpeak(an, engine, text, tts_ok) ==
  IF ~engine THEN log_error(an, "tts", "TTS engine not initialized")
  ELSE IF tts_ok THEN log_tts(an, Some(text))
  ELSE log_error(an, "tts", "speech engine failure")

\* ConsciousnessVoice.process_command: the elif chain on command.lower()
ConsciousnessProcessCommand(c) ==
  LET l == Lower(c) IN
  IF Contains(kw_status, l)
  THEN "Platform status: Fully operational. 5 human tasks remaining, revenue system live."
  ELSE IF Contains(kw_deploy, l)
  THEN "Deployment system ready. Use AUTO DEPLOY SYSTEM script."
  ELSE IF Contains(kw_payment, l) \/ Contains(kw_stripe, l)
  THEN "Stripe payment system is live and accepting real payments."
  ELSE IF Contains(kw_cloud, l) \/ Contains(kw_render, l)
  THEN "Consciousness services running on Render dot com 24/7."
  ELSE IF Contains(kw_help, l)
  THEN "Available commands: status, deploy, payment, cloud, cockpit, services."
  ELSE IF Contains(kw_cockpit, l)
  THEN "Commander Cockpit shows 5 human tasks, 9 missing APIs, 1.5 hours remaining."
  ELSE IF Contains(kw_services, l) \/ Contains(kw_trinity, l)
  THEN "Trinity engines operational. C1 Mechanic, C2 Architect, C3 Oracle running."
  ELSE "Command received: " \o Str(c) \o ". Processing capability coming soon."

\* if 'exit' in command.lower() or 'quit' in command.lower()
IsExitCommand(c) ==
  LET l == Lower(c) IN Contains(kw_exit, l) \/ Contains(kw_quit, l)

\* what one listen call of a conversation may capture
ConversationOutcomes ==
  { Heard(<<"E", "x", "i", "t">>),
    Heard(<<"Q", "u", "i", "t", " ", "n", "o", "w">>),
    Heard(<<"s", "t", "a", "t", "u", "s">>),
    Heard(<<"x", "y", "z", "z", "y">>),
    WaitTimeoutError, OtherError }

\* a ConsciousnessVoice as __init__ leaves it, analytics enabled: the engine
\* and the microphone are there or their initialisation failed; main() or
\* a caller is about to enter conversation_mode(max_exchanges)
InitConversation ==
  /\ RouterIdle
  /\ analytics = NewAnalytics
  /\ ListenerIdle
  /\ DiskIdle
  /\ DispatchIdle
  /\ conv_pc = "start"
  /\ exchanges = 0
  /\ max_exchanges \in 0..MaxExchanges
  /\ conv_command = None
  /\ listens = 0
  /\ processed = 0
  /\ announced = 0
  /\ microphone \in BOOLEAN
  /\ tts_engine \in BOOLEAN

\* conversation_mode up to the loop: the greeting, exchanges = 0
ConversationMode ==
  /\ conv_pc = "start"
  /\ \E ok \in TtsResults :
       analytics' = ConsciousnessSpeak(analytics, tts_engine,
                      "Hello Commander! Voice mode activated. Say 'exit' to quit.", ok)
  /\ exchanges' = 0
  /\ conv_pc' = "loop"
  /\ UNCHANGED << routerVars, listenerVars, diskVars, dispatchVars, wake_words,
                  max_exchanges, conv_command, listens, processed, announced,
                  microphone, tts_engine >>

\* a loop in which a failed listen uses up one exchange
ConversationListenCountsFailure ==
  /\ conv_pc = "loop"
  /\ exchanges < max_exchanges
  /\ listens < MaxListens
  /\ listens' = listens + 1
  /\ IF ~microphone
     THEN /\ analytics' = log_error(analytics, "stt", "Microphone not initialized")
          /\ conv_command' = None
     ELSE \E o \in ConversationOutcomes :
            /\ analytics' = ConsciousnessListenLog(analytics, o)
            /\ conv_command' = ConsciousnessListen(o)
  /\ exchanges' = IF conv_command' = None THEN exchanges + 1 ELSE exchanges
  /\ conv_pc' = IF conv_command' = None THEN "loop" ELSE "got"
  /\ UNCHANGED << routerVars, listenerVars, diskVars, dispatchVars, wake_words,
                  max_exchanges, processed, announced, microphone, tts_engine >>

\* while exchanges < max_exchanges: command = self.listen(); if command is
\* None: continue
ConversationListen ==
  /\ conv_pc = "loop"
  /\ exchanges < max_exchanges
  /\ listens < MaxListens
  /\ listens' = listens + 1
  /\ IF ~microphone
     THEN /\ analytics' = log_error(analytics, "stt", "Microphone not initialized")
          /\ conv_command' = None
     ELSE \E o \in ConversationOutcomes :
            /\ analytics' = ConsciousnessListenLog(analytics, o)
            /\ conv_command' = ConsciousnessListen(o)
  /\ conv_pc' = IF conv_command' = None THEN "loop" ELSE "got"
  /\ UNCHANGED << routerVars, listenerVars, diskVars, dispatchVars, wake_words,
                  exchanges, max_exchanges, processed, announced,
                  microphone, tts_engine >>

\* the exit test met: the goodbye, break
ExitCommand ==
  /\ conv_pc = "got"
  /\ IsExitCommand(conv_command[1])
  /\ \E ok \in TtsResults :
       analytics' = ConsciousnessSpeak(analytics, tts_engine,
                      "Voice mode deactivated. Goodbye Commander!", ok)
  /\ conv_pc' = "after"
  /\ UNCHANGED << routerVars, listenerVars, diskVars, dispatchVars, wake_words,
                  exchanges, max_exchanges, conv_command, listens, processed,
                  announced, microphone, tts_engine >>

\* response = self.process_command(command); self.speak(response);
\* exchanges += 1
Exchange ==
  /\ conv_pc = "got"
  /\ ~IsExitCommand(conv_command[1])
  /\ processed' = processed + 1
  /\ \E ok \in TtsResults :
       analytics' = ConsciousnessSpeak(analytics, tts_engine,
                      ConsciousnessProcessCommand(conv_command[1]), ok)
  /\ exchanges' = exchanges + 1
  /\ conv_pc' = "loop"
  /\ UNCHANGED << routerVars, listenerVars, diskVars, dispatchVars, wake_words,
                  max_exchanges, conv_command, listens, announced,
                  microphone, tts_engine >>

\* the while test fails
LoopEnds ==
  /\ conv_pc = "loop"
  /\ exchanges >= max_exchanges
  /\ conv_pc' = "after"
  /\ UNCHANGED << routerVars, listenerVars, diskVars, dispatchVars, wake_words,
                  analytics, exchanges, max_exchanges, conv_command, listens,
                  processed, announced, microphone, tts_engine >>

\* if exchanges >= max_exchanges: the announcement; conversation_mode returns
AfterLoop ==
  /\ conv_pc = "after"
  /\ IF exchanges >= max_exchanges
     THEN /\ \E ok \in TtsResults :
               analytics' = ConsciousnessSpeak(analytics, tts_engine,
                              "Max exchanges reached. Voice mode deactivating.", ok)
          /\ announced' = announced + 1
     ELSE UNCHANGED << analytics, announced >>
  /\ conv_pc' = "done"
  /\ UNCHANGED << routerVars, listenerVars, diskVars, dispatchVars, wake_words,
                  exchanges, max_exchanges, conv_command, listens, processed,
                  microphone, tts_engine >>

NextConversation ==
  \/ ConversationMode
  \/ ConversationListen
  \/ ExitCommand
  \/ Exchange
  \/ LoopEnds
  \/ AfterLoop

\* one call of conversation_mode
SpecConversation == InitConversation /\ [][NextConversation]_vars

\* a session of either voice front end: the wake-word listener or a
\* conversation
InitVoice == Init \/ InitConversation

NextVoice == Next \/ NextConversation

SpecVoice == InitVoice /\ [][NextVoice]_vars

(***************************************************************************)
(* Properties of the two speak methods                                     *)
(***************************************************************************)
\* this step is a speak call of WakeWordListener.run_continuous
ListenerSpeakStep ==
  \/ pc = "start" /\ pc' = "idle"
  \/ pc = "ack" /\ pc' = "window"
  \/ pc \in {"respond", "got_command"} /\ pc' = "idle"
  \/ pc = "stopping" /\ pc' = "cleanup"

\* this step is a speak call of ConsciousnessVoice.conversation_mode
ConversationSpeakStep ==
  \/ conv_pc = "start" /\ conv_pc' = "loop"
  \/ conv_pc = "got"
  \/ conv_pc = "after" /\ exchanges >= max_exchanges

IsTtsError(e) == e.type = "error" /\ e.data.error_type = "tts"

\* the latest event the step added
LastAdded == AddedEvents[Len(AddedEvents)]

\* the speak call of this step failed and left an error event of type tts
SpeakFailureLogged == AddedEvents # <<>> /\ IsTtsError(LastAdded)

\* the speak call of this step went through and left its tts event
SpeakLogged == AddedEvents # <<>> /\ LastAdded.type = "tts"

\* the listener is where a speak call that went through would have left it
ListenerGoesOn ==
  /\ pc = "start" => pc' = "idle" /\ running'
  /\ pc = "ack" => pc' = "window" /\ running'
  /\ pc \in {"respond", "got_command"} => pc' = "idle" /\ running'
  /\ pc = "stopping" => pc' = "cleanup"

\* the conversation is where a speak call that went through would have
\* left it
ConversationGoesOn ==
  /\ conv_pc = "start" => conv_pc' = "loop" /\ exchanges' = 0
  /\ (conv_pc = "got" /\ ~IsExitCommand(conv_command[1]))
       => conv_pc' = "loop" /\ exchanges' = exchanges + 1
  /\ (conv_pc = "got" /\ IsExitCommand(conv_command[1])) => conv_pc' = "after"
  /\ conv_pc = "after" => conv_pc' = "done"

\* C26: every speak call of the listener and of the conversation returns
\* with its outcome in the log, a tts event when the engine spoke and an
\* error event of type tts when it failed; after a failure the loop that
\* called speak is at the point it reaches after a success, so a synthesis
\* failure ends no session.
ThmC26_SpeakFailureLoggedNotFatal ==
  [][ /\ ListenerSpeakStep
        => /\ SpeakLogged \/ SpeakFailureLogged
           /\ SpeakFailureLogged => ListenerGoesOn
      /\ ConversationSpeakStep
        => /\ SpeakLogged \/ SpeakFailureLogged
           /\ SpeakFailureLogged => ConversationGoesOn ]_vars

\* C26 witness: the engine of a conversation raised on the greeting, the
\* failure is the first event of the log, and the loop has gone on to take
\* a command and answer it
WitC26_ConversationGoesOnAfterFailure ==
  /\ tts_engine
  /\ conv_pc = "loop"
  /\ processed = 1
  /\ Len(analytics.events) >= 3
  /\ IsTtsError(analytics.events[1])
  /\ analytics.events[1].data.message = "speech engine failure"
  /\ analytics.events[2].type = "stt"

(***************************************************************************)
(* Properties of conversation_mode                                         *)
(***************************************************************************)
\* this step is a listen call that returned None
FailedListenStep == listens' = listens + 1 /\ conv_command' = None

\* this step handles a recognised command holding 'exit' or 'quit'
ExitStep == conv_pc = "got" /\ IsExitCommand(conv_command[1])

\* C27: conversation_mode passes at most max_exchanges commands to
\* process_command and exchanges counts exactly those; a listen that
\* returned None goes back to the loop test without counting; a command
\* holding 'exit' or 'quit' leaves the loop at once and is not processed;
\* when conversation_mode has returned, the "Max exchanges reached"
\* announcement has been made once if exchanges reached max_exchanges and
\* not at all otherwise.
ThmC27_ExchangesCountProcessedCommands ==
  /\ [](/\ exchanges = processed
        /\ processed <= max_exchanges
        /\ announced <= 1
        /\ announced = 1 => conv_pc = "done" /\ exchanges >= max_exchanges
        /\ conv_pc = "done" => (announced = 1 <=> exchanges >= max_exchanges))
  /\ [][ /\ FailedListenStep
           => /\ exchanges' = exchanges
              /\ processed' = processed
              /\ conv_pc' = "loop"
         /\ ExitStep
           => /\ exchanges' = exchanges
              /\ processed' = processed
              /\ listens' = listens
              /\ conv_pc' = "after"
         /\ processed' # processed
           => /\ conv_pc = "got"
              /\ ~IsExitCommand(conv_command[1])
              /\ processed' = processed + 1 ]_vars

\* C27 witness: a conversation of two exchanges has returned after three
\* listen calls, one of them failed, and has made the announcement
WitC27_LimitReachedAfterFailedListen ==
  /\ conv_pc = "done"
  /\ max_exchanges = 2
  /\ listens = 3
  /\ processed = 2
  /\ announced = 1

\* C28 as stated: conversation_mode terminates whatever the listen calls
\* return; then no listen call may leave the loop where it found it, each
\* one has to leave the loop test or raise exchanges towards max_exchanges.
CexC28_EveryListenNearsTheEnd ==
  [][ listens' = listens + 1
        => (conv_pc' # "loop" \/ exchanges' > exchanges) ]_vars

IsTtsEvent(e) == e.type = "tts"

IsErrorEvent(e) == e.type = "error"

\* C29 as stated: every speak call of the listener and of the conversation
\* records either one tts event and no error event (the text was
\* synthesized) or one error event and no tts event (the synthesis
\* failed), never both.
CexC29_TtsEventOnlyForSpokenText ==
  [][ (ListenerSpeakStep \/ ConversationSpeakStep)
        => CountWhere(AddedEvents, IsTtsEvent)
             + CountWhere(AddedEvents, IsErrorEvent) = 1 ]_vars

(***************************************************************************)
(* Properties of the listener: the success rate of the report              *)
(***************************************************************************)
\* C30 as stated: in every state of a listener session the error counter
\* is at most tts_events + stt_events, and the success rate that
\* generate_report computes from the counters lies between 0 and 1.
CexC30_ErrorsWithinSpeechEvents ==
  LET r == generate_report(analytics)
  IN  /\ analytics.statistics.errors
           <= analytics.statistics.tts_events + analytics.statistics.stt_events
      /\ 0 <= r.success_num
      /\ r.success_num <= r.success_den

(***************************************************************************)
(* Properties of the analytics: log_stt without a text                     *)
(***************************************************************************)
\* this step is a log_stt call whose text is empty or None
EmptySttStep ==
  /\ pc = "off"
  /\ Len(analytics'.events) = Len(analytics.events) + 1
  /\ LastAdded.type = "stt"
  /\ ~Truthy(LastAdded.data.text)

\* C31 as stated: a log_stt call with an empty or absent text records the
\* event with chars = 0, raises stt_events by one, leaves total_chars_heard
\* and the transcript as they were, and persists the snapshot: the session
\* file equals the session in memory when the call is over.
CexC31_EmptySttRecordedAndPersisted ==
  [][ EmptySttStep
        => /\ LastAdded.data.chars = 0
           /\ analytics'.statistics.stt_events = analytics.statistics.stt_events + 1
           /\ analytics'.statistics.total_chars_heard
                = analytics.statistics.total_chars_heard
           /\ analytics'.transcript_file = analytics.transcript_file
           /\ analytics'.session_file = Some(Snapshot(analytics')) ]_vars

(***************************************************************************)
(* Properties of the queue between listen_continuous and process_queue     *)
(***************************************************************************)
\* C32: at every moment the texts process_queue has taken and routed are,
\* in order, the first of the texts listen_continuous has put on
\* voice_queue: no transcript is dispatched twice, skipped or overtaken;
\* the ones not yet dispatched are the ones waiting in the queue.
ThmC32_DispatchedIsPrefixOfPlaced ==
  /\ IsPrefix(dispatched, placed)
  /\ placed = dispatched \o voice_queue

\* C32 witness: two different transcripts were recognised one after the
\* other and both have been dispatched, in that order
WitC32_TwoTranscriptsInOrder ==
  /\ Len(placed) = 2
  /\ placed[1] # placed[2]
  /\ dispatched = placed
  /\ pq_pc = "get"

\* C33 as stated: every transcript put on voice_queue is dispatched in the
\* end, also the ones waiting when the router is stopped; then process_queue
\* cannot be over, returned or killed with the interpreter, while a
\* transcript is still in the queue.
CexC33_NothingLeftWhenProcessorEnds ==
  pq_pc \in {"finished", "killed"} => (voice_queue = <<>> /\ dispatched = placed)

(***************************************************************************)
(* Properties of the listener: the command counter                         *)
(***************************************************************************)
IsAcknowledgement(e) == e.type = "tts" /\ e.data.text = Some("Yes Commander?")

\* the event at position i is the stt event of a command capture: it
\* follows the acknowledgement of a wake word, or the error of an
\* acknowledgement the engine failed on
IsCommandTranscriptAt(evs, i) ==
  /\ evs[i].type = "stt"
  /\ i > 1
  /\ \/ IsAcknowledgement(evs[i - 1])
     \/ (i > 2 /\ IsTtsError(evs[i - 1]) /\ IsAcknowledgement(evs[i - 2]))

\* the non-empty command transcripts received inside command windows
CommandTranscripts(evs) ==
  {i \in DOMAIN evs : IsCommandTranscriptAt(evs, i) /\ Truthy(evs[i].data.text)}

\* a non-empty command transcript has been received and the loop has not
\* yet passed it to process_command
CommandPending == pc = "got_command" /\ CommandTruthy(command)

\* C34: commands_processed is the number of command events, one for every
\* non-empty command transcript received inside a command window, the
\* stop command included, once the loop has passed it to process_command;
\* a step raises the counter only for such a transcript and by one, so a
\* transcript heard while idle, a timed-out window and a failed or empty
\* capture add nothing.
ThmC34_OneCommandEventPerCommandTranscript ==
  /\ [](/\ analytics.statistics.commands_processed
             = CountWhere(analytics.events, IsCommandEvent)
        /\ analytics.statistics.commands_processed
             + (IF CommandPending THEN 1 ELSE 0)
             = Cardinality(CommandTranscripts(analytics.events)))
  /\ [][ /\ analytics'.statistics.commands_processed
              # analytics.statistics.commands_processed
           => /\ CommandPending
              /\ analytics'.statistics.commands_processed
                   = analytics.statistics.commands_processed + 1
              /\ LastAdded.type = "command"
              /\ LastAdded.data.command = Str(command[1])
         /\ CommandPending
           => analytics'.statistics.commands_processed
                = analytics.statistics.commands_processed + 1 ]_vars

\* C34 witness: a first window timed out, a second one took the stop
\* command, and the session ended with one command counted
WitC34_StopCountedTimeoutNot ==
  /\ pc = "done"
  /\ wake_detected_count = 2
  /\ analytics.statistics.commands_processed = 1
  /\ \E i \in DOMAIN analytics.events : IsTimeoutError(analytics.events[i])
  /\ \E i \in DOMAIN analytics.events :
       /\ IsCommandEvent(analytics.events[i])
       /\ analytics.events[i].data.command = "stop listening"

====
